---- MODULE Spec2Model ----
(***************************************************************************)
(* Verification model of the graphwalk evaluation scripts:                 *)
(*   - the graph builders and the parents / BFS queries of                 *)
(*     classic_technique.py and classic_prolog.py,                         *)
(*   - the scoring functions of modern_metrics.py, calculate_metrics.py,   *)
(*     classic_metrics.py and classic_prolog_metrics.py,                   *)
(*   - the answer extraction of modern_metrics.py / calculate_metrics.py,  *)
(*   - the item loop of modern_metrics.main,                               *)
(*   - the classic run: executar_operacao_do_prompt and the loop of        *)
(*     classic_technique.main, the scoring loop of classic_metrics.main    *)
(*     and general_metrics_classic.analyze_metrics.                        *)
(* Texts are sequences of characters (one-character strings) or of tokens; *)
(* floats are exact rationals <<numerator, denominator>> in lowest terms.  *)
(***************************************************************************)
EXTENDS Integers, Sequences, FiniteSets, TLC

VARIABLES
    \* --- graph queries ---
    lines,              \* the edge lines the builders have consumed so far
    graph,              \* classic_technique: defaultdict(list), source -> destinations
    facts,              \* classic_prolog: prolog_facts, list of fact texts
    engine,             \* classic_prolog: the points_to database of the shared engine
    raised,             \* classic_technique: the builder raised an exception
    qres,               \* the last query and what each implementation returned
    \* --- scoring ---
    predicted,          \* predicted node list
    actual,             \* true node list
    scores,             \* what each scoring function returned
    \* --- answer extraction ---
    text,               \* the text handed to the extraction functions
    outcome,            \* what each extraction function returned
    \* --- modern_metrics.main ---
    data,               \* the items loaded from the input file
    idx,                \* number of items the loop has consumed
    processed_data,     \* items kept for the output file
    metrics_by_type,    \* {"bfs": [...], "parents": [...]}
    parsing_failures,   \* counter of items whose extraction failed
    general_metrics,    \* the summary written at the end
    mpc,                \* position of main: "idle", "loop", "done"
    \* --- the classic run: classic_technique, classic_metrics, general_metrics_classic ---
    examples,           \* the examples of the dataset
    results,            \* graphwalks_results.jsonl: one entry per processed example
    total_items_classic,        \* classic_metrics.main: number of result lines consumed
    totals,             \* classic_metrics.main: running sums and count per stratum
    outfile,            \* graphwalks_results_with_metrics.jsonl
    accuracy_metrics,   \* classic_metrics.main: the averages written at the end
    final_metrics_summary, \* general_metrics_classic.analyze_metrics: its summary
    processed_count,    \* classic_technique.main: non-blank lines found in the output file
    run_iterations,     \* classic_technique.main: iterations of the loop in this run
    cpc,                \* position of the classic run
    \* --- classic_prolog.__main__ ---
    dataset,            \* classic_prolog: the entries of the dataset
    entry_i,            \* number of entries the loop has consumed
    all_results,        \* the list of result records
    skipped_entries,    \* indices printed as "Skipping entry"
    results_json,       \* classic_prolog_results.json
    bpc,                \* position of __main__
    \* --- modern_technique.main ---
    dataset_types,      \* problem_type of each item of the dataset
    STATE_FILE,         \* processing_state.json
    RESULTS_FILE,       \* collected_results.json
    INDICES_PARENTS_FILE, \* indices_parents.json
    INDICES_BFS_FILE,   \* indices_bfs.json
    state,              \* in memory: {'pointers': {'parents': .., 'bfs': ..}}
    collected_results,  \* in memory: the list "results"
    indices_parents,    \* in memory: the shuffled parents indices
    indices_bfs,        \* in memory: the shuffled bfs indices
    current_type,       \* the type the loop selected
    tpc                 \* position of the run of modern_technique

queryVars == <<lines, graph, facts, engine, raised, qres>>
scoreVars == <<predicted, actual, scores>>
parseVars == <<text, outcome>>
mainVars  == <<data, idx, processed_data, metrics_by_type, parsing_failures,
               general_metrics, mpc>>
classicVars == <<examples, results, total_items_classic, totals, outfile, accuracy_metrics,
                 final_metrics_summary, processed_count, run_iterations, cpc>>
batchVars == <<dataset, entry_i, all_results, skipped_entries, results_json, bpc>>
collectVars == <<dataset_types, STATE_FILE, RESULTS_FILE, INDICES_PARENTS_FILE,
                 INDICES_BFS_FILE, state, collected_results, indices_parents, indices_bfs,
                 current_type, tpc>>
vars == <<queryVars, scoreVars, parseVars, mainVars, classicVars, batchVars, collectVars>>

None == "None"

----------------------------------------------------------------------------
(* Bounds of the model *)

MaxEdges == 3
MaxDepth == 3
MaxList  == 3
MaxText  == 4
MaxItems == 2
MaxDataset == 4
\* TARGET_SAMPLES_PER_TYPE of modern_technique.py (100 there), scaled to the
\* datasets of the model
TARGET_SAMPLES_PER_TYPE == 2

----------------------------------------------------------------------------
(* Generic helpers *)

Range(s) == {s[i] : i \in 1..Len(s)}

Nodes == {"A", "B", "C", "D"}

\* Python compares strings by code point: "A" < "B" < "C" < "D" < "a" < "b" < "c".
Ord(n) ==
    CASE n = "A" -> 1 [] n = "B" -> 2 [] n = "C" -> 3 [] n = "D" -> 4
      [] n = "a" -> 5 [] n = "b" -> 6 [] n = "c" -> 7 [] OTHER -> 8

RECURSIVE SortSet(_)
\* sorted(list(S)) for a set S of node names
SortSet(S) ==
    IF S = {} THEN <<>>
    ELSE LET m == CHOOSE x \in S : \A y \in S : Ord(x) <= Ord(y)
         IN  <<m>> \o SortSet(S \ {m})

RECURSIVE SeqsUpTo(_, _)
\* all sequences over S of length at most n
SeqsUpTo(S, n) ==
    IF n = 0 THEN {<<>>}
    ELSE LET shorter == SeqsUpTo(S, n - 1)
         IN  shorter \cup {Append(s, x) : s \in {t \in shorter : Len(t) = n - 1}, x \in S}

----------------------------------------------------------------------------
(* Graph builders *)

Arrow == " -> "

\* an edge line "u -> v" as tokens
EdgeLine(u, v) == <<u, Arrow, v>>

HeaderLine == <<"The graph has the following edges:">>

\* graph.get(node, [])
GraphGet(g, node) == IF node \in DOMAIN g THEN g[node] ELSE <<>>

\* a faulty variant of GraphAppend: graph[source] = [dest], the list is replaced
GraphAppend_replace(g, source, dest) ==
    [k \in DOMAIN g \cup {source} |-> IF k = source THEN <<dest>> ELSE g[k]]

\* a faulty variant of GraphAppend: graph[source].insert(0, dest)
GraphAppend_insert_first(g, source, dest) ==
    [k \in DOMAIN g \cup {source} |->
        IF k = source THEN <<dest>> \o GraphGet(g, source) ELSE g[k]]

\* graph[source].append(dest) on a defaultdict(list)
GraphAppend(g, source, dest) ==
    [k \in DOMAIN g \cup {source} |->
        IF k = source THEN Append(GraphGet(g, source), dest) ELSE g[k]]

RECURSIVE SplitOn(_, _)
\* str.split(sep) on a token sequence: the pieces between the separators
SplitOn(s, sep) ==
    IF sep \notin Range(s) THEN <<s>>
    ELSE LET i == CHOOSE k \in 1..Len(s) : s[k] = sep /\ \A j \in 1..(k - 1) : s[j] # sep
         IN  <<SubSeq(s, 1, i - 1)>> \o SplitOn(SubSeq(s, i + 1, Len(s)), sep)

\* str.strip of a piece; a piece of the line alphabet is one node token or empty
StripPiece(p) == IF Len(p) = 1 THEN p[1] ELSE ""

\* source, dest = map(str.strip, line.split(' -> ')) raises ValueError unless
\* the split gives exactly two pieces; the surrounding try catches IndexError only
classic_line_raises(line) ==
    Arrow \in Range(line) /\ Len(SplitOn(line, Arrow)) # 2

\* one iteration of the builder loop of executar_operacao_do_prompt
classic_build_line(g, line) ==
    IF Arrow \in Range(line) /\ ~classic_line_raises(line)
    THEN LET parts == SplitOn(line, Arrow)
         IN  GraphAppend(g, StripPiece(parts[1]), StripPiece(parts[2]))
    ELSE g

\* f"points_to('{node1}', '{node2}')" as a sequence of characters
FactText(node1, node2) ==
    <<"p", "o", "i", "n", "t", "s", "_", "t", "o", "(", "'">> \o <<node1>>
        \o <<"'", ",", " ", "'">> \o <<node2>> \o <<"'", ")">>

\* a faulty variant of prolog_build_line: without "if fact not in prolog_facts"
prolog_build_line_no_dedupe(fs, line) ==
    IF Arrow \in Range(line)
    THEN LET parts == SplitOn(line, Arrow)
         IN  Append(fs, FactText(StripPiece(parts[1]), StripPiece(parts[2])))
    ELSE fs

\* one iteration of the loop of parse_graph_to_prolog
prolog_build_line(fs, line) ==
    IF Arrow \in Range(line)
    THEN LET parts == SplitOn(line, Arrow)
             fact  == FactText(StripPiece(parts[1]), StripPiece(parts[2]))
         IN  IF fact \notin Range(fs) THEN Append(fs, fact) ELSE fs
    ELSE fs

RECURSIVE BuildGraph(_)
BuildGraph(ls) ==
    IF ls = <<>> THEN <<>>
    ELSE classic_build_line(BuildGraph(SubSeq(ls, 1, Len(ls) - 1)), ls[Len(ls)])

RECURSIVE BuildFacts(_)
BuildFacts(ls) ==
    IF ls = <<>> THEN <<>>
    ELSE prolog_build_line(BuildFacts(SubSeq(ls, 1, Len(ls) - 1)), ls[Len(ls)])

----------------------------------------------------------------------------
(* classic_technique.py: the queries *)

\* a faulty variant of find_parents: looks at the first destination only
find_parents_first_only(g, target_node) ==
    SortSet({source_node \in DOMAIN g :
                Len(g[source_node]) > 0 /\ g[source_node][1] = target_node})

find_parents(g, target_node) ==
    SortSet({source_node \in DOMAIN g : target_node \in Range(g[source_node])})

\* a faulty variant of next_level_nodes: no visited check
next_level_nodes_unvisited(g, visited, current_level_nodes) ==
    UNION {Range(GraphGet(g, node)) : node \in current_level_nodes}

\* the body of one iteration of "for _ in range(depth)": the neighbours of the
\* current level that are not visited yet
next_level_nodes(g, visited, current_level_nodes) ==
    {neighbor \in UNION {Range(GraphGet(g, node)) : node \in current_level_nodes} :
        neighbor \notin visited}

RECURSIVE bfs_levels_break_first(_, _, _, _)
\* a faulty variant of bfs_levels: the break on an empty level comes before
\* "current_level_nodes = next_level_nodes"
bfs_levels_break_first(g, visited, current_level_nodes, remaining) ==
    IF remaining = 0 THEN current_level_nodes
    ELSE LET next == next_level_nodes(g, visited, current_level_nodes)
         IN  IF next = {} THEN current_level_nodes
             ELSE bfs_levels_break_first(g, visited \cup next, next, remaining - 1)

RECURSIVE bfs_levels(_, _, _, _)
\* "for _ in range(depth)" with the early break on an empty level
bfs_levels(g, visited, current_level_nodes, remaining) ==
    IF remaining = 0 THEN current_level_nodes
    ELSE LET next == next_level_nodes(g, visited, current_level_nodes)
         IN  IF next = {} THEN next
             ELSE bfs_levels(g, visited \cup next, next, remaining - 1)

find_bfs_at_depth(g, start_node, depth) ==
    IF depth = 0 THEN <<>>
    ELSE SortSet(bfs_levels(g, {start_node}, {start_node}, depth))

\* the graph after find_parents: "for source_node, destinations in
\* graph.items()" looks no key up
graph_after_find_parents(g, target_node) == g

\* a faulty variant of graph_after_get: graph[node] on a defaultdict(list),
\* which creates the missing key with an empty list
graph_after_getitem(g, node) ==
    [k \in DOMAIN g \cup {node} |-> GraphGet(g, k)]

\* the graph after graph.get(node, []): dict.get creates no key
graph_after_get(g, node) == g

RECURSIVE graph_after_level(_, _)
\* the graph after "for node in current_level_nodes: ... graph.get(node, [])"
graph_after_level(g, nodes) ==
    IF nodes = <<>> THEN g
    ELSE graph_after_level(graph_after_get(g, Head(nodes)), Tail(nodes))

RECURSIVE graph_after_bfs_levels(_, _, _, _)
\* the graph after the levels of find_bfs_at_depth
graph_after_bfs_levels(g, visited, current_level_nodes, remaining) ==
    IF remaining = 0 THEN g
    ELSE LET looked_up == graph_after_level(g, SortSet(current_level_nodes))
             next == next_level_nodes(looked_up, visited, current_level_nodes)
         IN  IF next = {} THEN looked_up
             ELSE graph_after_bfs_levels(looked_up, visited \cup next, next, remaining - 1)

\* the graph after find_bfs_at_depth(graph, start_node, depth)
graph_after_find_bfs_at_depth(g, start_node, depth) ==
    IF depth = 0 THEN g
    ELSE graph_after_bfs_levels(g, {start_node}, {start_node}, depth)

----------------------------------------------------------------------------
(* classic_prolog.py: bfs_iterative *)

RECURSIVE StripLeft(_, _)
StripLeft(s, chars) ==
    IF s # <<>> /\ s[1] \in chars THEN StripLeft(Tail(s), chars) ELSE s

RECURSIVE StripRight(_, _)
StripRight(s, chars) ==
    IF s # <<>> /\ s[Len(s)] \in chars
    THEN StripRight(SubSeq(s, 1, Len(s) - 1), chars) ELSE s

\* str.strip(chars): removes the characters of the set from both ends
StripChars(s, chars) == StripRight(StripLeft(s, chars), chars)

Whitespace == {" ", "\n"}

\* a node name is one character in this model
CharsToName(cs) == IF Len(cs) = 1 THEN cs[1] ELSE ""

\* fact.strip("points_to()").replace("'", "").split(','); the parts stripped
fact_parts(fact) ==
    LET stripped == StripChars(fact, {"p", "o", "i", "n", "t", "s", "_", "(", ")"})
        replaced == SelectSeq(stripped, LAMBDA c : c # "'")
        parts    == SplitOn(replaced, ",")
    IN  [i \in 1..Len(parts) |-> CharsToName(StripChars(parts[i], Whitespace))]

RECURSIVE build_adj_list(_)
\* the loop over prolog_facts; a fact with fewer than two parts is skipped
build_adj_list(fs) ==
    IF fs = <<>> THEN <<>>
    ELSE LET adj   == build_adj_list(SubSeq(fs, 1, Len(fs) - 1))
             parts == fact_parts(fs[Len(fs)])
         IN  IF Len(parts) < 2 THEN adj ELSE GraphAppend(adj, parts[1], parts[2])

RECURSIVE enqueue_neighbors(_, _, _, _)
\* "for neighbor in adj_list.get(current_node, [])": <<queue, visited>> afterwards
enqueue_neighbors(neighbors, queue, visited, current_depth) ==
    IF neighbors = <<>> THEN <<queue, visited>>
    ELSE IF Head(neighbors) \notin visited
         THEN enqueue_neighbors(Tail(neighbors),
                                Append(queue, <<Head(neighbors), current_depth + 1>>),
                                visited \cup {Head(neighbors)}, current_depth)
         ELSE enqueue_neighbors(Tail(neighbors), queue, visited, current_depth)

RECURSIVE bfs_queue_loop(_, _, _, _, _)
\* "while queue": nodes_at_target_depth when the queue is empty
bfs_queue_loop(adj_list, queue, visited, nodes_at_target_depth, target_depth) ==
    IF queue = <<>> THEN nodes_at_target_depth
    ELSE LET current_node  == Head(queue)[1]
             current_depth == Head(queue)[2]
         IN  IF current_depth >= target_depth
             THEN bfs_queue_loop(adj_list, Tail(queue), visited,
                                 IF current_depth = target_depth
                                 THEN Append(nodes_at_target_depth, current_node)
                                 ELSE nodes_at_target_depth,
                                 target_depth)
             ELSE LET qv == enqueue_neighbors(GraphGet(adj_list, current_node),
                                              Tail(queue), visited, current_depth)
                  IN  bfs_queue_loop(adj_list, qv[1], qv[2], nodes_at_target_depth,
                                     target_depth)

\* a faulty variant of final_results: the start node is not filtered out
final_results_keep_start(nodes_at_target_depth, start_node) ==
    nodes_at_target_depth

\* final_results = [node for node in nodes_at_target_depth if node != start_node]
final_results(nodes_at_target_depth, start_node) ==
    SelectSeq(nodes_at_target_depth, LAMBDA node : node # start_node)

bfs_iterative(prolog_facts, start_node, target_depth) ==
    LET adj_list == build_adj_list(prolog_facts)
    IN  IF start_node \notin DOMAIN adj_list /\ target_depth > 0 THEN <<>>
        ELSE SortSet(Range(final_results(
                 bfs_queue_loop(adj_list, <<<<start_node, 0>>>>, {start_node}, <<>>,
                                target_depth),
                 start_node)))

----------------------------------------------------------------------------
(* classic_prolog.py: the Prolog engine *)

\* the term the engine reads from "points_to('u', 'v')": the two quoted atoms
PrologRead(fact) ==
    LET q  == {i \in 1..Len(fact) : fact[i] = "'"}
        q1 == CHOOSE i \in q : \A j \in q : i <= j
        q2 == CHOOSE i \in q \ {q1} : \A j \in q \ {q1} : i <= j
        q3 == CHOOSE i \in q \ {q1, q2} : \A j \in q \ {q1, q2} : i <= j
        q4 == CHOOSE i \in q \ {q1, q2, q3} : \A j \in q \ {q1, q2, q3} : i <= j
    IN  <<CharsToName(SubSeq(fact, q1 + 1, q2 - 1)),
          CharsToName(SubSeq(fact, q3 + 1, q4 - 1))>>

\* "for fact in prolog_facts: prolog_engine.assertz(fact.strip('.'))"
prolog_assertz_all(db, prolog_facts) ==
    db \o [i \in 1..Len(prolog_facts) |-> PrologRead(StripChars(prolog_facts[i], {"."}))]

\* a faulty variant of limpar_base_prolog: nothing is retracted
limpar_base_prolog_keep(db) == db

\* limpar_base_prolog: retractall(points_to(_, _))
limpar_base_prolog(db) == <<>>

\* parent(Result, Q) :- points_to(Result, Q): the solutions in database order
prolog_parent(db, query_node) ==
    LET hits == SelectSeq(db, LAMBDA f : f[2] = query_node)
    IN  [i \in 1..Len(hits) |-> hits[i][1]]

RECURSIVE prolog_findall_next(_, _, _)
\* findall(Next, (member(Node, CurrentLevel), points_to(Node, Next),
\*               \+ member(Next, Visited)), NextNodes)
prolog_findall_next(db, CurrentLevel, Visited) ==
    IF CurrentLevel = <<>> THEN <<>>
    ELSE LET hits == SelectSeq(db, LAMBDA f :
                         f[1] = Head(CurrentLevel) /\ f[2] \notin Range(Visited))
         IN  [i \in 1..Len(hits) |-> hits[i][2]]
                 \o prolog_findall_next(db, Tail(CurrentLevel), Visited)

\* a faulty variant of prolog_union: the new level is not recorded as visited
prolog_union_forget(Visited, NextLevel) == Visited

\* union(Visited, NextLevel, NewVisited) of library(lists)
prolog_union(Visited, NextLevel) ==
    SelectSeq(Visited, LAMBDA x : x \notin Range(NextLevel)) \o NextLevel

RECURSIVE bfs_engine_last_level(_, _, _, _)
\* a faulty variant of bfs_engine: the third clause answers with the current
\* level instead of []
bfs_engine_last_level(db, CurrentLevel, Visited, TargetDepth) ==
    IF TargetDepth = 0 THEN CurrentLevel
    ELSE LET NextNodes == prolog_findall_next(db, CurrentLevel, Visited)
             NextLevel == SortSet(Range(NextNodes))
         IN  IF NextLevel # <<>>
             THEN bfs_engine_last_level(db, NextLevel, prolog_union(Visited, NextLevel),
                                        TargetDepth - 1)
             ELSE CurrentLevel

RECURSIVE bfs_engine(_, _, _, _)
\* the three bfs_engine clauses; the first solution of the query
bfs_engine(db, CurrentLevel, Visited, TargetDepth) ==
    IF TargetDepth = 0 THEN CurrentLevel
    ELSE LET NextNodes == prolog_findall_next(db, CurrentLevel, Visited)
             NextLevel == SortSet(Range(NextNodes))
         IN  IF NextLevel # <<>>
             THEN bfs_engine(db, NextLevel, prolog_union(Visited, NextLevel),
                             TargetDepth - 1)
             ELSE <<>>

\* result_nodes.remove(query_node): removes the first occurrence
ListRemove(s, x) ==
    LET i == CHOOSE k \in 1..Len(s) : s[k] = x /\ \A j \in 1..(k - 1) : s[j] # x
    IN  SubSeq(s, 1, i - 1) \o SubSeq(s, i + 1, Len(s))

\* a faulty variant of processar_query_prolog: result_nodes is returned as it
\* is, without sorted(list(set(...)))
processar_query_prolog_unsorted(prolog_facts, problem_type, query_node, db, depth) ==
    LET db2 == prolog_assertz_all(db, prolog_facts)
        result_nodes ==
            IF problem_type = "parents" THEN prolog_parent(db2, query_node)
            ELSE IF problem_type = "bfs"
            THEN LET prolog_list == bfs_engine(db2, <<query_node>>, <<query_node>>, depth)
                 IN  IF query_node \in Range(prolog_list)
                     THEN ListRemove(prolog_list, query_node)
                     ELSE prolog_list
            ELSE <<>>
    IN  [result |-> result_nodes, engine |-> db2]

\* processar_query_prolog: the returned list and the engine's database afterwards
processar_query_prolog(prolog_facts, problem_type, query_node, db, depth) ==
    LET db2 == prolog_assertz_all(db, prolog_facts)
        result_nodes ==
            IF problem_type = "parents" THEN prolog_parent(db2, query_node)
            ELSE IF problem_type = "bfs"
            THEN LET prolog_list == bfs_engine(db2, <<query_node>>, <<query_node>>, depth)
                 IN  IF query_node \in Range(prolog_list)
                     THEN ListRemove(prolog_list, query_node)
                     ELSE prolog_list
            ELSE <<>>
    IN  [result |-> SortSet(Range(result_nodes)), engine |-> db2]

----------------------------------------------------------------------------
(* Specification of the queries: the builders consume lines one at a time,  *)
(* then the implementations answer a query on what was built.               *)

ExampleLines ==
    <<EdgeLine("A", "B"), EdgeLine("B", "C"), EdgeLine("A", "C"), EdgeLine("C", "D")>>

\* a path of three edges: the deepest level three edges can give
ChainLines == <<EdgeLine("A", "B"), EdgeLine("B", "C"), EdgeLine("C", "D")>>

\* the nodes of the lines the model adds freely; "D" comes with the two graphs above
FreeNodes == {"A", "B", "C"}

\* a line with the separator twice: "A -> B -> C"
MalformedLine == <<"A", Arrow, "B", Arrow, "C">>

InputLines ==
    {EdgeLine(u, v) : u \in FreeNodes, v \in FreeNodes} \cup {HeaderLine, MalformedLine}

NoQuery ==
    [op |-> "none", node |-> None, depth |-> 0,
     classic |-> <<>>, iterative |-> <<>>, prolog |-> <<>>]

ScoreIdle == predicted = <<>> /\ actual = <<>> /\ scores = None
ParseIdle == text = <<>> /\ outcome = None
MainIdle ==
    /\ data = <<>> /\ idx = 0 /\ processed_data = <<>>
    /\ metrics_by_type = None /\ parsing_failures = 0
    /\ general_metrics = None /\ mpc = "idle"
ClassicIdle ==
    /\ examples = <<>> /\ results = <<>> /\ total_items_classic = 0 /\ totals = None
    /\ outfile = <<>> /\ accuracy_metrics = None /\ final_metrics_summary = None
    /\ processed_count = 0 /\ run_iterations = 0
    /\ cpc = "idle"

\* a file that does not exist; its content field keeps the shape of the content
NoListFile == [exists |-> FALSE, content |-> <<>>]
NoStateFile == [exists |-> FALSE, content |-> [pointers |-> [parents |-> 0, bfs |-> 0]]]

BatchIdle ==
    /\ dataset = <<>> /\ entry_i = 0 /\ all_results = <<>> /\ skipped_entries = {}
    /\ results_json = NoListFile /\ bpc = "idle"
CollectIdle ==
    /\ dataset_types = <<>>
    /\ STATE_FILE = NoStateFile /\ RESULTS_FILE = NoListFile
    /\ INDICES_PARENTS_FILE = NoListFile /\ INDICES_BFS_FILE = NoListFile
    /\ state = NoStateFile.content /\ collected_results = <<>>
    /\ indices_parents = <<>> /\ indices_bfs = <<>>
    /\ current_type = None /\ tpc = "idle"
QueryIdle ==
    /\ lines = <<>> /\ graph = <<>> /\ facts = <<>> /\ engine = <<>>
    /\ raised = FALSE /\ qres = NoQuery

InitQuery ==
    /\ lines \in {<<>>, ExampleLines, ChainLines}
    /\ graph = BuildGraph(lines)
    /\ facts = BuildFacts(lines)
    /\ engine = <<>>
    /\ raised = FALSE
    /\ qres = NoQuery
    /\ ScoreIdle /\ ParseIdle /\ MainIdle /\ ClassicIdle /\ BatchIdle /\ CollectIdle

\* the builders read one more line of the graph section
AddLine(line) ==
    /\ ~raised
    /\ qres.op = "none"
    /\ Len(lines) < MaxEdges
    /\ lines' = Append(lines, line)
    /\ raised' = classic_line_raises(line)
    /\ graph' = classic_build_line(graph, line)
    /\ facts' = prolog_build_line(facts, line)
    /\ UNCHANGED <<engine, qres, scoreVars, parseVars, mainVars, classicVars, batchVars, collectVars>>

\* "Find the parents of node t": find_parents and the Prolog parent rule
QueryParents(t) ==
    /\ ~raised
    /\ qres.op = "none"
    /\ LET pl == processar_query_prolog(facts, "parents", t, engine, 0)
       IN  /\ qres' = [op |-> "parents", node |-> t, depth |-> 0,
                       classic |-> find_parents(graph, t),
                       iterative |-> <<>>,
                       prolog |-> pl.result]
           /\ engine' = limpar_base_prolog(pl.engine)
    /\ graph' = graph_after_find_parents(graph, t)
    /\ UNCHANGED <<lines, facts, raised, scoreVars, parseVars, mainVars, classicVars, batchVars, collectVars>>

\* "Perform a BFS from node s with depth d": the three implementations
QueryBfs(s, d) ==
    /\ ~raised
    /\ qres.op = "none"
    /\ LET pl == processar_query_prolog(facts, "bfs", s, engine, d)
       IN  /\ qres' = [op |-> "bfs", node |-> s, depth |-> d,
                       classic |-> find_bfs_at_depth(graph, s, d),
                       iterative |-> bfs_iterative(facts, s, d),
                       prolog |-> pl.result]
           /\ engine' = limpar_base_prolog(pl.engine)
    /\ graph' = graph_after_find_bfs_at_depth(graph, s, d)
    /\ UNCHANGED <<lines, facts, raised, scoreVars, parseVars, mainVars, classicVars, batchVars, collectVars>>

NextQuery ==
    \/ \E line \in InputLines : AddLine(line)
    \/ \E t \in Nodes : QueryParents(t)
    \/ \E s \in Nodes, d \in 0..MaxDepth : QueryBfs(s, d)

SpecQuery == InitQuery /\ [][NextQuery]_vars

----------------------------------------------------------------------------
(* Floats as exact rationals <<numerator, denominator>>, denominator > 0, in  *)
(* lowest terms; <<0, 0>> stands for a raised ZeroDivisionError and is        *)
(* carried through every later operation.                                     *)

RECURSIVE GCD(_, _)
GCD(a, b) == IF b = 0 THEN a ELSE GCD(b, a % b)

ZeroDivisionError == <<0, 0>>

Raised(x) == x[2] = 0

Frac(n, d) ==
    IF d = 0 THEN ZeroDivisionError
    ELSE LET g == GCD(n, d) IN <<n \div g, d \div g>>

RInt(n) == <<n, 1>>
RZero == RInt(0)
ROne == RInt(1)

RAdd(x, y) ==
    IF Raised(x) \/ Raised(y) THEN ZeroDivisionError
    ELSE Frac(x[1] * y[2] + y[1] * x[2], x[2] * y[2])

RMul(x, y) ==
    IF Raised(x) \/ Raised(y) THEN ZeroDivisionError
    ELSE Frac(x[1] * y[1], x[2] * y[2])

\* x / y: raises when y is zero
RDiv(x, y) ==
    IF Raised(x) \/ Raised(y) \/ y[1] = 0 THEN ZeroDivisionError
    ELSE Frac(x[1] * y[2], x[2] * y[1])

RLeq(x, y) == x[1] * y[2] <= y[1] * x[2]

----------------------------------------------------------------------------
(* Python values that may be a list, a string or None *)

PyList(v) == [type |-> "list", v |-> v]
PyStr(v)  == [type |-> "str", v |-> <<v>>]
PyNone    == [type |-> "NoneType", v |-> <<>>]

----------------------------------------------------------------------------
(* The scoring functions *)

\* 2 * (precision * recall) / (precision + recall)
f1_formula(precision, recall) ==
    RDiv(RMul(RInt(2), RMul(precision, recall)), RAdd(precision, recall))

\* a faulty variant of modern_precision: no guard on an empty predicted set
modern_precision_unguarded(set_predicted, true_positives) ==
    RDiv(RInt(true_positives), RInt(Cardinality(set_predicted)))

\* modern_metrics.py line 45
modern_precision(set_predicted, true_positives) ==
    IF Cardinality(set_predicted) > 0
    THEN RDiv(RInt(true_positives), RInt(Cardinality(set_predicted)))
    ELSE RZero

\* a faulty variant of modern_recall: an empty true set always gives recall 1.0
modern_recall_one(set_predicted, set_true, true_positives) ==
    IF Cardinality(set_true) = 0 THEN ROne
    ELSE RDiv(RInt(true_positives), RInt(Cardinality(set_true)))

\* modern_metrics.py lines 47-50
modern_recall(set_predicted, set_true, true_positives) ==
    IF Cardinality(set_true) = 0
    THEN (IF set_predicted = {} THEN ROne ELSE RZero)
    ELSE RDiv(RInt(true_positives), RInt(Cardinality(set_true)))

\* modern_metrics.calculate_metrics: <<precision, recall, f1_score>>
modern_calculate_metrics(predicted_nodes, true_nodes) ==
    LET set_predicted == Range(predicted_nodes)
        set_true      == Range(true_nodes)
    IN  IF set_predicted = {} /\ set_true = {} THEN <<ROne, ROne, ROne>>
        ELSE LET true_positives == Cardinality(set_predicted \cap set_true)
                 precision == modern_precision(set_predicted, true_positives)
                 recall    == modern_recall(set_predicted, set_true, true_positives)
                 f1_score  == IF RAdd(precision, recall) = RZero THEN RZero
                              ELSE f1_formula(precision, recall)
             IN  <<precision, recall, f1_score>>

\* calculate_metrics.py lines 40-64: the score from the confusion counts
calculate_scores_counts(true_set, predicted_set) ==
    LET true_positives  == Cardinality(true_set \cap predicted_set)
        false_positives == Cardinality(predicted_set \ true_set)
        false_negatives == Cardinality(true_set \ predicted_set)
        precision == IF true_positives + false_positives > 0
                     THEN RDiv(RInt(true_positives),
                               RInt(true_positives + false_positives))
                     ELSE RZero
        recall    == IF true_positives + false_negatives > 0
                     THEN RDiv(RInt(true_positives),
                               RInt(true_positives + false_negatives))
                     ELSE RZero
        f1_score  == IF RLeq(RAdd(precision, recall), RZero) THEN RZero
                     ELSE f1_formula(precision, recall)
    IN  <<precision, recall, f1_score>>

\* a faulty variant of calculate_scores: without the special case of two empty sets
calculate_scores_no_special_case(true_nodes, predicted_nodes) ==
    calculate_scores_counts(Range(true_nodes), Range(predicted_nodes))

\* calculate_metrics.calculate_scores(true_nodes, predicted_nodes)
calculate_scores(true_nodes, predicted_nodes) ==
    LET true_set      == Range(true_nodes)
        predicted_set == Range(predicted_nodes)
    IN  IF true_set = {} /\ predicted_set = {} THEN <<ROne, ROne, ROne>>
        ELSE calculate_scores_counts(true_set, predicted_set)

\* classic_metrics.calculate_metrics: a prediction that is no list counts as []
classic_calculate_metrics(predicted_py, true_nodes) ==
    LET predicted_nodes == IF predicted_py.type # "list" THEN <<>> ELSE predicted_py.v
        predicted_set   == Range(predicted_nodes)
        true_set        == Range(true_nodes)
    IN  IF predicted_set = {} /\ true_set = {} THEN <<ROne, ROne, ROne>>
        ELSE LET true_positives == Cardinality(predicted_set \cap true_set)
                 precision == IF Cardinality(predicted_set) = 0 THEN RZero
                              ELSE RDiv(RInt(true_positives),
                                        RInt(Cardinality(predicted_set)))
                 recall    == IF Cardinality(true_set) = 0
                              THEN (IF Cardinality(predicted_set) = 0 THEN ROne ELSE RZero)
                              ELSE RDiv(RInt(true_positives), RInt(Cardinality(true_set)))
                 f1_score  == IF RAdd(precision, recall) = RZero THEN RZero
                              ELSE f1_formula(precision, recall)
             IN  <<precision, recall, f1_score>>

\* a faulty variant of prolog_recall: recall 1.0 when there is nothing to find
prolog_recall_one(true_positives, false_negatives) ==
    IF true_positives + false_negatives > 0
    THEN RDiv(RInt(true_positives), RInt(true_positives + false_negatives))
    ELSE ROne

\* classic_prolog_metrics.py line 37
prolog_recall(true_positives, false_negatives) ==
    IF true_positives + false_negatives > 0
    THEN RDiv(RInt(true_positives), RInt(true_positives + false_negatives))
    ELSE RZero

\* classic_prolog_metrics.calculate_metrics: None counts as []
prolog_calculate_metrics(predicted_py, actual_nodes) ==
    LET predicted_nodes == IF predicted_py.type = "NoneType" THEN <<>> ELSE predicted_py.v
        predicted_set   == Range(predicted_nodes)
        actual_set      == Range(actual_nodes)
    IN  IF predicted_set = {} /\ actual_set = {} THEN <<ROne, ROne, ROne>>
        ELSE LET true_positives  == Cardinality(predicted_set \cap actual_set)
                 false_positives == Cardinality(predicted_set \ actual_set)
                 false_negatives == Cardinality(actual_set \ predicted_set)
                 precision == IF true_positives + false_positives > 0
                              THEN RDiv(RInt(true_positives),
                                        RInt(true_positives + false_positives))
                              ELSE RZero
                 recall    == prolog_recall(true_positives, false_negatives)
                 f1_score  == IF RLeq(RAdd(precision, recall), RZero) THEN RZero
                              ELSE f1_formula(precision, recall)
             IN  <<precision, recall, f1_score>>

----------------------------------------------------------------------------
(* Specification of the scoring: two node lists, then every scoring function  *)
(* is applied to them.                                                        *)

ScoreNodes == {"a", "b", "c"}

NodeLists == SeqsUpTo(ScoreNodes, MaxList)

NoScores ==
    [done |-> FALSE, modern |-> <<>>, calc |-> <<>>, classic |-> <<>>, prolog |-> <<>>]

InitScore ==
    /\ predicted \in NodeLists
    /\ actual \in NodeLists
    /\ scores = NoScores
    /\ QueryIdle /\ ParseIdle /\ MainIdle /\ ClassicIdle /\ BatchIdle /\ CollectIdle

Score ==
    /\ ~scores.done
    /\ scores' = [done    |-> TRUE,
                  modern  |-> modern_calculate_metrics(predicted, actual),
                  calc    |-> calculate_scores(actual, predicted),
                  classic |-> classic_calculate_metrics(PyList(predicted), actual),
                  prolog  |-> prolog_calculate_metrics(PyList(predicted), actual)]
    /\ UNCHANGED <<predicted, actual, queryVars, parseVars, mainVars, classicVars, batchVars, collectVars>>

NextScore == Score

SpecScore == InitScore /\ [][NextScore]_vars

----------------------------------------------------------------------------
(* Answer extraction.  A text is a sequence of tokens: the two markers, a     *)
(* blank, the brackets, the comma, the double quote and a node letter.        *)

FinalAnswerMarker == "Final Answer:"
PredictionMarker  == "\"prediction\":"
Quote == "\""
Blank == " "

TextAlphabet == {FinalAnswerMarker, PredictionMarker, Blank, "[", "]", ",", Quote, "x"}

\* re.search(marker \s* \[ (.*?) \]): the places <<i, j, k>> of the marker, of
\* the "[" after the blanks that follow it, and of the first "]" after that
bracket_matches(txt, marker) ==
    UNION { UNION { { <<i, j, k>> :
                        k \in {c \in (j + 1)..Len(txt) :
                                  /\ txt[c] = "]"
                                  /\ \A e \in (j + 1)..(c - 1) : txt[e] # "]"} } :
                    j \in {b \in (i + 1)..Len(txt) :
                              /\ txt[b] = "["
                              /\ \A e \in (i + 1)..(b - 1) : txt[e] = Blank} } :
            i \in {a \in 1..Len(txt) : txt[a] = marker} }

\* the leftmost match
first_match(txt, marker) ==
    LET ms == bracket_matches(txt, marker)
    IN  CHOOSE m \in ms : \A n \in ms : m[1] <= n[1]

\* match.group(1) of the leftmost match: the text between the brackets
group_content(txt, marker) ==
    LET m == first_match(txt, marker) IN SubSeq(txt, m[2] + 1, m[3] - 1)

\* the nodes of parse_output: [node.strip().strip("'\"") for node in content.split(',')]
parse_output_nodes(content) ==
    LET pieces == SplitOn(content, ",")
    IN  [i \in 1..Len(pieces) |-> StripChars(StripChars(pieces[i], {Blank}), {Quote})]

\* modern_metrics.parse_output: (nodes, whether 'Final Answer: [...]' was found)
parse_output(output_str) ==
    IF bracket_matches(output_str, FinalAnswerMarker) = {}
    THEN [nodes |-> <<>>, ok |-> FALSE]
    ELSE LET content == StripChars(group_content(output_str, FinalAnswerMarker), {Blank})
         IN  IF content = <<>> THEN [nodes |-> <<>>, ok |-> TRUE]
             ELSE [nodes |-> parse_output_nodes(content), ok |-> TRUE]

RECURSIVE json_array_scan(_, _, _, _)
\* json.loads of "[" content "]": the scanner after "[", in mode "begin" (the
\* array has just opened), "value" (after a comma), "string" (inside a string)
\* or "after" (after a value); cur is the string read so far, acc the values.
json_array_scan(content, mode, cur, acc) ==
    IF content = <<>>
    THEN [ok |-> mode \in {"begin", "after"}, list |-> acc]
    ELSE LET tok  == Head(content)
             rest == Tail(content)
             bad  == [ok |-> FALSE, list |-> <<>>]
         IN  CASE mode \in {"begin", "value"} ->
                    IF tok = Blank THEN json_array_scan(rest, mode, cur, acc)
                    ELSE IF tok = Quote THEN json_array_scan(rest, "string", <<>>, acc)
                    ELSE bad
               [] mode = "string" ->
                    IF tok = Quote THEN json_array_scan(rest, "after", <<>>, Append(acc, cur))
                    ELSE IF tok = PredictionMarker THEN bad
                    ELSE json_array_scan(rest, "string", Append(cur, tok), acc)
               [] OTHER ->
                    IF tok = Blank THEN json_array_scan(rest, "after", cur, acc)
                    ELSE IF tok = "," THEN json_array_scan(rest, "value", cur, acc)
                    ELSE bad

\* json.loads(prediction_str): ok is FALSE for a JSONDecodeError
json_loads_list(content) == json_array_scan(content, "begin", <<>>, <<>>)

\* calculate_metrics.extract_prediction_from_prompt: the returned list
extract_prediction_from_prompt(prompt_text) ==
    IF bracket_matches(prompt_text, PredictionMarker) = {} THEN <<>>
    ELSE LET parsed == json_loads_list(group_content(prompt_text, PredictionMarker))
         IN  IF parsed.ok THEN parsed.list ELSE <<>>

----------------------------------------------------------------------------
(* Specification of the extraction: a text, then both functions read it.      *)

\* longer texts than the bound allows: lists of one and of two nodes
SeedTexts ==
    { <<PredictionMarker, Blank, "[", Quote, "x", Quote, "]">>,
      <<PredictionMarker, "[", Quote, "x", Quote, ",", Blank, Quote, "x", "x", Quote, "]">>,
      <<FinalAnswerMarker, Blank, "[", "x", ",", Blank, Quote, "x", "x", Quote, "]">>,
      <<"x", FinalAnswerMarker, "[", Blank, "]", "x", FinalAnswerMarker, "[", "x", "]">> }

NoOutcome == [done |-> FALSE, parse_output |-> [nodes |-> <<>>, ok |-> FALSE], extract |-> <<>>]

InitParse ==
    /\ text \in SeqsUpTo(TextAlphabet, MaxText) \cup SeedTexts
    /\ outcome = NoOutcome
    /\ QueryIdle /\ ScoreIdle /\ MainIdle /\ ClassicIdle /\ BatchIdle /\ CollectIdle

Extract ==
    /\ ~outcome.done
    /\ outcome' = [done |-> TRUE,
                   parse_output |-> parse_output(text),
                   extract |-> extract_prediction_from_prompt(text)]
    /\ UNCHANGED <<text, queryVars, scoreVars, mainVars, classicVars, batchVars, collectVars>>

NextParse == Extract

SpecParse == InitParse /\ [][NextParse]_vars

----------------------------------------------------------------------------
(* modern_metrics.main *)

\* round(x, 4): to the nearest multiple of 1/10000, a tie to the even one
Round4(x) ==
    LET n == x[1] * 10000
        q == n \div x[2]
        r == n % x[2]
    IN  IF 2 * r < x[2] THEN Frac(q, 10000)
        ELSE IF 2 * r > x[2] THEN Frac(q + 1, 10000)
        ELSE IF q % 2 = 0 THEN Frac(q, 10000)
        ELSE Frac(q + 1, 10000)

RECURSIVE SumOf(_, _)
\* sum(m[k] for m in metrics_list)
SumOf(metrics_list, k) ==
    IF metrics_list = <<>> THEN RZero
    ELSE RAdd(Head(metrics_list)[k], SumOf(Tail(metrics_list), k))

\* modern_metrics._calculate_average_metrics
calculate_average_metrics(metrics_list, total_items) ==
    IF metrics_list = <<>>
    THEN [evaluated_items |-> 0, average_precision |-> RZero,
          average_recall |-> RZero, average_f1_score |-> RZero]
    ELSE LET num_items == Len(metrics_list)
         IN  [evaluated_items   |-> num_items,
              average_precision |-> Round4(RDiv(SumOf(metrics_list, 1), RInt(num_items))),
              average_recall    |-> Round4(RDiv(SumOf(metrics_list, 2), RInt(num_items))),
              average_f1_score  |-> Round4(RDiv(SumOf(metrics_list, 3), RInt(num_items)))]

\* the item with the two fields the loop adds (lines 138-143)
enriched_item(item, predicted_nodes, m) ==
    [output |-> item.output, answer_nodes |-> item.answer_nodes,
     problem_type |-> item.problem_type,
     predicted_nodes |-> predicted_nodes,
     metrics |-> [precision |-> Round4(m[1]), recall |-> Round4(m[2]),
                  f1_score |-> Round4(m[3])]]

\* metrics_by_type[problem_type].append(...) when the type is a key (lines 131-135)
append_by_type(by_type, problem_type, m) ==
    IF problem_type \in DOMAIN by_type
    THEN [by_type EXCEPT ![problem_type] = Append(@, m)]
    ELSE by_type

\* a faulty variant of main_loop_body: the "continue" after a failed parsing is missing
main_loop_body_no_continue(st, item) ==
    LET parsed == parse_output(item.output)
        m      == modern_calculate_metrics(parsed.nodes, item.answer_nodes)
    IN  [parsing_failures |-> IF parsed.ok THEN st.parsing_failures
                              ELSE st.parsing_failures + 1,
         metrics_by_type  |-> append_by_type(st.metrics_by_type, item.problem_type, m),
         processed_data   |-> Append(st.processed_data,
                                     enriched_item(item, parsed.nodes, m))]

\* one iteration of "for item in data" (lines 114-146) on the loop's three
\* accumulators
main_loop_body(st, item) ==
    LET parsed == parse_output(item.output)
    IN  IF ~parsed.ok
        THEN [st EXCEPT !.parsing_failures = @ + 1]
        ELSE LET m == modern_calculate_metrics(parsed.nodes, item.answer_nodes)
             IN  [parsing_failures |-> st.parsing_failures,
                  metrics_by_type  |-> append_by_type(st.metrics_by_type,
                                                      item.problem_type, m),
                  processed_data   |-> Append(st.processed_data,
                                              enriched_item(item, parsed.nodes, m))]

\* the summary of lines 154-174
build_general_metrics(total_items_initial, failures, by_type) ==
    [written |-> TRUE,
     total_items_in_file |-> total_items_initial,
     parsing_success_rate |->
         Round4(RDiv(RInt(total_items_initial - failures), RInt(total_items_initial))),
     items_with_failed_parsing |-> failures,
     overall |-> calculate_average_metrics(by_type["bfs"] \o by_type["parents"],
                                           total_items_initial),
     by_problem_type |->
         [bfs     |-> calculate_average_metrics(by_type["bfs"], total_items_initial),
          parents |-> calculate_average_metrics(by_type["parents"], total_items_initial)]]

NoAverages ==
    [evaluated_items |-> 0, average_precision |-> RZero,
     average_recall |-> RZero, average_f1_score |-> RZero]

\* no summary file is written
NoGeneralMetrics ==
    [written |-> FALSE, total_items_in_file |-> 0, parsing_success_rate |-> RZero,
     items_with_failed_parsing |-> 0, overall |-> NoAverages,
     by_problem_type |-> [bfs |-> NoAverages, parents |-> NoAverages]]

----------------------------------------------------------------------------
(* Specification of modern_metrics.main: the items of the input file, then    *)
(* one iteration per item, then the two output files.                         *)

ItemOutputs ==
    { <<"x">>,
      <<FinalAnswerMarker, "[", "]">>,
      <<FinalAnswerMarker, "[", "x", "]">>,
      <<FinalAnswerMarker, Blank, "[", "x", ",", Blank, "y", "]">> }

ItemAnswers == { <<>>, << <<"x">> >> }

ProblemTypes == {"bfs", "parents", "other"}

Items ==
    [output : ItemOutputs, answer_nodes : ItemAnswers, problem_type : ProblemTypes]

InitMain ==
    /\ data \in SeqsUpTo(Items, MaxItems)
    /\ idx = 0
    /\ processed_data = <<>>
    /\ metrics_by_type = [t \in {"bfs", "parents"} |-> <<>>]
    /\ parsing_failures = 0
    /\ general_metrics = NoGeneralMetrics
    /\ mpc = "loop"
    /\ QueryIdle /\ ScoreIdle /\ ParseIdle /\ ClassicIdle /\ BatchIdle /\ CollectIdle

\* one iteration of "for item in data"
MainStep ==
    /\ mpc = "loop"
    /\ idx < Len(data)
    /\ LET st == main_loop_body([parsing_failures |-> parsing_failures,
                                 metrics_by_type  |-> metrics_by_type,
                                 processed_data   |-> processed_data],
                                data[idx + 1])
       IN  /\ parsing_failures' = st.parsing_failures
           /\ metrics_by_type' = st.metrics_by_type
           /\ processed_data' = st.processed_data
    /\ idx' = idx + 1
    /\ UNCHANGED <<data, general_metrics, mpc, queryVars, scoreVars, parseVars, classicVars, batchVars, collectVars>>

\* after the loop: the enriched items are saved, and the summary when the
\* input held an item
MainFinish ==
    /\ mpc = "loop"
    /\ idx = Len(data)
    /\ general_metrics' =
           IF Len(data) > 0
           THEN build_general_metrics(Len(data), parsing_failures, metrics_by_type)
           ELSE general_metrics
    /\ mpc' = "done"
    /\ UNCHANGED <<data, idx, processed_data, metrics_by_type, parsing_failures,
                   queryVars, scoreVars, parseVars, classicVars, batchVars, collectVars>>

NextMain == MainStep \/ MainFinish

SpecMain == InitMain /\ [][NextMain]_vars

----------------------------------------------------------------------------
(* classic_technique.py: executar_operacao_do_prompt and main.  A prompt is   *)
(* the record of what the text splits of the code look for: the marker        *)
(* "<end example>", the header and the lines of the graph section, the        *)
(* header "Operation:" and the tokens of the operation line.                  *)

BfsPhrase     == "Perform a BFS from node "
DepthPhrase   == " with depth "
ParentsPhrase == "Find the parents of node "

\* the tokens a (\d+) group matches, and int() of them
Digits == {"0", "1", "2", "3"}

IntOf(digits) ==
    CASE digits = "0" -> 0 [] digits = "1" -> 1 [] digits = "2" -> 2 [] OTHER -> 3

\* the tokens a (\w+) group matches
Words == Nodes \cup Digits

\* 'BFS' in operation_line
contains_BFS(operation_line) ==
    \E i \in 1..Len(operation_line) : operation_line[i] \in {BfsPhrase, "BFS"}

\* 'parents' in operation_line
contains_parents(operation_line) ==
    \E i \in 1..Len(operation_line) : operation_line[i] \in {ParentsPhrase, "parents"}

\* re.search(r"Perform a BFS from node (\w+) with depth (\d+)"): where it matches
bfs_operation_matches(operation_line) ==
    {i \in 1..(Len(operation_line) - 3) :
        /\ operation_line[i] = BfsPhrase
        /\ operation_line[i + 1] \in Words
        /\ operation_line[i + 2] = DepthPhrase
        /\ operation_line[i + 3] \in Digits}

\* re.search(r"Find the parents of node (\w+)"): where it matches
parents_operation_matches(operation_line) ==
    {i \in 1..(Len(operation_line) - 1) :
        /\ operation_line[i] = ParentsPhrase
        /\ operation_line[i + 1] \in Words}

\* an exception that no handler of the function catches
PyRaise(v) == [type |-> "raise", v |-> <<v>>]

\* lines 68-83: the operation line decides what is run and returned
operation_dispatch(g, operation_line) ==
    IF contains_BFS(operation_line)
    THEN LET ms == bfs_operation_matches(operation_line)
         IN  IF ms # {}
             THEN LET i == CHOOSE m \in ms : \A n \in ms : m <= n
                  IN  PyList(find_bfs_at_depth(g, operation_line[i + 1],
                                               IntOf(operation_line[i + 3])))
             ELSE PyStr("Erro de Parsing: Formato da operacao BFS nao reconhecido.")
    ELSE IF contains_parents(operation_line)
    THEN LET ms == parents_operation_matches(operation_line)
         IN  IF ms # {}
             THEN LET i == CHOOSE m \in ms : \A n \in ms : m <= n
                  IN  PyList(find_parents(g, operation_line[i + 1]))
             ELSE PyStr("Erro de Parsing: Formato da operacao 'parents' nao reconhecido.")
    ELSE PyStr("Erro de Parsing: Tipo de operacao desconhecido.")

\* executar_operacao_do_prompt: a node list, an error string, or the ValueError
\* of a graph line that does not unpack into two names
executar_operacao_do_prompt(prompt_text) ==
    IF ~prompt_text.end_example
    THEN PyStr("Erro de Parsing: Marcacao '<end example>' nao encontrada.")
    ELSE IF ~prompt_text.graph_header
    THEN PyStr("Erro de Parsing: Secao do grafo nao encontrada na secao do problema.")
    ELSE IF \E i \in 1..Len(prompt_text.graph_lines) :
                classic_line_raises(prompt_text.graph_lines[i])
    THEN PyRaise("ValueError")
    ELSE IF ~prompt_text.operation_header
    THEN PyStr("Erro de Parsing: Secao da operacao nao encontrada na secao do problema.")
    ELSE operation_dispatch(BuildGraph(prompt_text.graph_lines),
                            prompt_text.operation_line)

\* a faulty variant of count_processed: the lines already written are not counted
count_processed_zero(output_file) == 0

\* lines 98-101: processed_count, the number of non-blank lines of the output
\* file (0 when the file does not exist); a blank line is the empty function
count_processed(output_file) ==
    Len(SelectSeq(output_file, LAMBDA line : DOMAIN line # {}))

\* the entry main writes for an example (lines 129-136), without its timing
result_entry(index, example, returned_nodes) ==
    [id |-> index, problem_type |-> example.problem_type, prompt |-> example.prompt,
     output |-> returned_nodes, answer_nodes |-> example.answer_nodes]

----------------------------------------------------------------------------
(* classic_metrics.py: main *)

ZeroTotals == [precision |-> RZero, recall |-> RZero, f1 |-> RZero, count |-> 0]

\* lines 58-61
InitialTotals == [stratum \in {"bfs", "parents"} |-> ZeroTotals]

\* a faulty variant of totals_add: the sums are replaced instead of increased
totals_add_overwrite(tot, stratum, metrics) ==
    IF stratum \in DOMAIN tot
    THEN [tot EXCEPT ![stratum] =
             [precision |-> metrics[1], recall |-> metrics[2], f1 |-> metrics[3],
              count     |-> @.count + 1]]
    ELSE tot

\* lines 91-96: the metrics of one example are added to its stratum
totals_add(tot, stratum, metrics) ==
    IF stratum \in DOMAIN tot
    THEN [tot EXCEPT ![stratum] =
             [precision |-> RAdd(@.precision, metrics[1]),
              recall    |-> RAdd(@.recall, metrics[2]),
              f1        |-> RAdd(@.f1, metrics[3]),
              count     |-> @.count + 1]]
    ELSE tot

\* data.update(metrics): the entry with its three scores
entry_with_metrics(entry, metrics) ==
    [id |-> entry.id, problem_type |-> entry.problem_type, prompt |-> entry.prompt,
     output |-> entry.output, answer_nodes |-> entry.answer_nodes,
     precision |-> metrics[1], recall |-> metrics[2], f1_score |-> metrics[3]]

\* one iteration of "for line in infile" (lines 81-98) on the loop's accumulators
classic_metrics_loop_body(st, entry) ==
    LET metrics == classic_calculate_metrics(entry.output, entry.answer_nodes)
    IN  [totals      |-> totals_add(st.totals, entry.problem_type, metrics),
         outfile     |-> Append(st.outfile, entry_with_metrics(entry, metrics)),
         total_items |-> st.total_items + 1]

\* the averages of one stratum (lines 112-130)
stratum_averages(values) ==
    IF values.count > 0
    THEN [average_precision |-> RDiv(values.precision, RInt(values.count)),
          average_recall    |-> RDiv(values.recall, RInt(values.count)),
          average_f1_score  |-> RDiv(values.f1, RInt(values.count)),
          total_items_processed |-> values.count]
    ELSE [average_precision |-> RZero, average_recall |-> RZero,
          average_f1_score |-> RZero, total_items_processed |-> 0]

\* a faulty variant of overall_totals_of: "=" in place of "+=", the last
\* stratum replaces the sums of the first
overall_totals_of_last_stratum(tot) ==
    IF tot["parents"].count > 0 THEN tot["parents"] ELSE tot["bfs"]

\* lines 108-123: the sums and counts of the strata that hold an item
overall_totals_of(tot) ==
    [precision |-> RAdd(tot["bfs"].precision, tot["parents"].precision),
     recall    |-> RAdd(tot["bfs"].recall, tot["parents"].recall),
     f1        |-> RAdd(tot["bfs"].f1, tot["parents"].f1),
     count     |-> tot["bfs"].count + tot["parents"].count]

\* lines 107-139: accuracy_metrics; GERAL is a key only when an item was counted
build_accuracy_metrics(tot) ==
    [written   |-> TRUE,
     BFS       |-> stratum_averages(tot["bfs"]),
     PARENTS   |-> stratum_averages(tot["parents"]),
     has_GERAL |-> overall_totals_of(tot).count > 0,
     GERAL     |-> stratum_averages(overall_totals_of(tot))]

NoAccuracyMetrics ==
    [written |-> FALSE, BFS |-> stratum_averages(ZeroTotals),
     PARENTS |-> stratum_averages(ZeroTotals), has_GERAL |-> FALSE,
     GERAL |-> stratum_averages(ZeroTotals)]

----------------------------------------------------------------------------
(* general_metrics_classic.py: analyze_metrics *)

ZeroAggregate ==
    [precision_sum |-> RZero, recall_sum |-> RZero, f1_score_sum |-> RZero, count |-> 0]

RECURSIVE metrics_aggregator_of(_)
\* the loop of lines 32-47 over the lines of the file
metrics_aggregator_of(records) ==
    IF records = <<>>
    THEN [bfs |-> ZeroAggregate, parents |-> ZeroAggregate, outliers |-> 0]
    ELSE LET agg == metrics_aggregator_of(SubSeq(records, 1, Len(records) - 1))
             rec == records[Len(records)]
             add(a) == [precision_sum |-> RAdd(a.precision_sum, rec.precision),
                        recall_sum    |-> RAdd(a.recall_sum, rec.recall),
                        f1_score_sum  |-> RAdd(a.f1_score_sum, rec.f1_score),
                        count         |-> a.count + 1]
         IN  IF rec.problem_type = "bfs" THEN [agg EXCEPT !.bfs = add(@)]
             ELSE IF rec.problem_type = "parents" THEN [agg EXCEPT !.parents = add(@)]
             ELSE [agg EXCEPT !.outliers = @ + 1]

\* lines 61-71
category_summary(a) ==
    IF a.count > 0
    THEN [precision |-> RDiv(a.precision_sum, RInt(a.count)),
          recall    |-> RDiv(a.recall_sum, RInt(a.count)),
          f1_score  |-> RDiv(a.f1_score_sum, RInt(a.count)),
          count     |-> a.count]
    ELSE [precision |-> RZero, recall |-> RZero, f1_score |-> RZero, count |-> 0]

\* lines 74-86
overall_summary(agg) ==
    LET total_count == category_summary(agg.bfs).count + category_summary(agg.parents).count
    IN  IF total_count > 0
        THEN [precision |-> RDiv(RAdd(agg.bfs.precision_sum, agg.parents.precision_sum),
                                 RInt(total_count)),
              recall    |-> RDiv(RAdd(agg.bfs.recall_sum, agg.parents.recall_sum),
                                 RInt(total_count)),
              f1_score  |-> RDiv(RAdd(agg.bfs.f1_score_sum, agg.parents.f1_score_sum),
                                 RInt(total_count)),
              count     |-> total_count]
        ELSE [precision |-> RZero, recall |-> RZero, f1_score |-> RZero, count |-> 0]

\* analyze_metrics: final_metrics_summary
analyze_metrics(records) ==
    LET agg == metrics_aggregator_of(records)
    IN  [written  |-> TRUE,
         bfs      |-> category_summary(agg.bfs),
         parents  |-> category_summary(agg.parents),
         overall  |-> overall_summary(agg),
         outliers |-> agg.outliers]

NoSummary ==
    [written |-> FALSE, bfs |-> category_summary(ZeroAggregate),
     parents |-> category_summary(ZeroAggregate),
     overall |-> category_summary(ZeroAggregate), outliers |-> 0]

----------------------------------------------------------------------------
(* Specification of the classic run: classic_technique.main answers every     *)
(* example, classic_metrics.main scores the entries one line at a time, and   *)
(* general_metrics_classic.analyze_metrics summarises the scored file.        *)

Prompt(operation_line) ==
    [end_example |-> TRUE, graph_header |-> TRUE, graph_lines |-> ExampleLines,
     operation_header |-> TRUE, operation_line |-> operation_line]

ClassicPrompts ==
    { Prompt(<<BfsPhrase, "A", DepthPhrase, "1">>),
      Prompt(<<ParentsPhrase, "C">>),
      Prompt(<<"Sort the nodes">>),
      Prompt(<<BfsPhrase, "A">>) }

ClassicAnswers == { <<>>, <<"B">> }

Examples ==
    [prompt : ClassicPrompts, problem_type : ProblemTypes, answer_nodes : ClassicAnswers]

InitClassic ==
    /\ examples \in SeqsUpTo(Examples, MaxItems)
    /\ results = <<>>
    /\ total_items_classic = 0
    /\ totals = InitialTotals
    /\ outfile = <<>>
    /\ accuracy_metrics = NoAccuracyMetrics
    /\ final_metrics_summary = NoSummary
    /\ processed_count = count_processed(results)
    /\ run_iterations = 0
    /\ cpc = "run"
    /\ QueryIdle /\ ScoreIdle /\ ParseIdle /\ MainIdle /\ BatchIdle /\ CollectIdle

\* classic_technique.main: one iteration of the loop over
\* enumerate(islice(dataset, processed_count, None), start=processed_count)
ClassicRunStep ==
    /\ cpc = "run"
    /\ processed_count + run_iterations < Len(examples)
    /\ LET index          == processed_count + run_iterations
           example        == examples[index + 1]
           returned_nodes == executar_operacao_do_prompt(example.prompt)
       IN  IF returned_nodes.type = "raise"
           THEN cpc' = "crashed" /\ UNCHANGED <<results, run_iterations>>
           ELSE /\ results' = Append(results, result_entry(index, example, returned_nodes))
                /\ run_iterations' = run_iterations + 1
                /\ UNCHANGED cpc
    /\ UNCHANGED <<examples, total_items_classic, totals, outfile, accuracy_metrics,
                   final_metrics_summary, processed_count,
                   queryVars, scoreVars, parseVars, mainVars, batchVars, collectVars>>

\* classic_technique.main: the dataset is exhausted
ClassicRunEnd ==
    /\ cpc = "run"
    /\ processed_count + run_iterations >= Len(examples)
    /\ cpc' = "metrics"
    /\ UNCHANGED <<examples, results, total_items_classic, totals, outfile, accuracy_metrics,
                   final_metrics_summary, processed_count, run_iterations,
                   queryVars, scoreVars, parseVars, mainVars, batchVars, collectVars>>

\* classic_metrics.main: one iteration of "for line in infile"
ClassicMetricsStep ==
    /\ cpc = "metrics"
    /\ total_items_classic < Len(results)
    /\ LET st == classic_metrics_loop_body(
                     [totals |-> totals, outfile |-> outfile, total_items |-> total_items_classic],
                     results[total_items_classic + 1])
       IN  /\ totals' = st.totals
           /\ outfile' = st.outfile
           /\ total_items_classic' = st.total_items
    /\ UNCHANGED <<examples, results, accuracy_metrics, final_metrics_summary, cpc,
                   processed_count, run_iterations,
                   queryVars, scoreVars, parseVars, mainVars, batchVars, collectVars>>

\* classic_metrics.main: after the loop, the averages when an item was read
ClassicMetricsEnd ==
    /\ cpc = "metrics"
    /\ total_items_classic = Len(results)
    /\ accuracy_metrics' =
           IF total_items_classic > 0 THEN build_accuracy_metrics(totals) ELSE accuracy_metrics
    /\ cpc' = "analyze"
    /\ UNCHANGED <<examples, results, total_items_classic, totals, outfile,
                   final_metrics_summary,
                   processed_count, run_iterations, queryVars, scoreVars, parseVars, mainVars, batchVars, collectVars>>

\* general_metrics_classic.analyze_metrics on the scored file
AnalyzeMetrics ==
    /\ cpc = "analyze"
    /\ final_metrics_summary' = analyze_metrics(outfile)
    /\ cpc' = "done"
    /\ UNCHANGED <<examples, results, total_items_classic, totals, outfile, accuracy_metrics,
                   processed_count, run_iterations,
                   queryVars, scoreVars, parseVars, mainVars, batchVars, collectVars>>

NextClassic ==
    \/ ClassicRunStep
    \/ ClassicRunEnd
    \/ ClassicMetricsStep
    \/ ClassicMetricsEnd
    \/ AnalyzeMetrics

SpecClassic == InitClassic /\ [][NextClassic]_vars

----------------------------------------------------------------------------
(* Specification of the resumed classic run: classic_technique.main is        *)
(* interrupted between two records, or ends, and is started again on the      *)
(* output file it finds.                                                      *)

\* a prompt whose graph section holds a line with two separators
MalformedGraphPrompt ==
    [end_example |-> TRUE, graph_header |-> TRUE,
     graph_lines |-> <<EdgeLine("A", "B"), MalformedLine>>,
     operation_header |-> TRUE, operation_line |-> <<ParentsPhrase, "B">>]

ResumeExamples ==
    [prompt : ClassicPrompts \cup {MalformedGraphPrompt},
     problem_type : {"bfs", "parents"}, answer_nodes : { <<"B">> }]

InitResume ==
    /\ examples \in SeqsUpTo(ResumeExamples, MaxItems + 1)
    /\ results = <<>>
    /\ total_items_classic = 0
    /\ totals = InitialTotals
    /\ outfile = <<>>
    /\ accuracy_metrics = NoAccuracyMetrics
    /\ final_metrics_summary = NoSummary
    /\ processed_count = count_processed(results)
    /\ run_iterations = 0
    /\ cpc = "run"
    /\ QueryIdle /\ ScoreIdle /\ ParseIdle /\ MainIdle /\ BatchIdle /\ CollectIdle

\* the run is stopped between two iterations: every record written so far is
\* a whole line of the output file
ClassicInterrupt ==
    /\ cpc = "run"
    /\ cpc' = "interrupted"
    /\ UNCHANGED <<examples, results, total_items_classic, totals, outfile, accuracy_metrics,
                   final_metrics_summary, processed_count, run_iterations,
                   queryVars, scoreVars, parseVars, mainVars, batchVars, collectVars>>

\* main is started again, lines 98-112: the lines of the output file are
\* counted and that many examples of the dataset are passed over
ClassicRestart ==
    /\ cpc \in {"interrupted", "crashed", "metrics"}
    /\ processed_count' = count_processed(results)
    /\ run_iterations' = 0
    /\ cpc' = "run"
    /\ UNCHANGED <<examples, results, total_items_classic, totals, outfile, accuracy_metrics,
                   final_metrics_summary,
                   queryVars, scoreVars, parseVars, mainVars, batchVars, collectVars>>

NextResume ==
    \/ ClassicRunStep
    \/ ClassicRunEnd
    \/ ClassicInterrupt
    \/ ClassicRestart

SpecResume == InitResume /\ [][NextResume]_vars

----------------------------------------------------------------------------
(* classic_prolog.py: __main__.  A prompt is the record of what the text      *)
(* splits of the code look for: the marker "Here is the graph to operate      *)
(* on:", the lines of the graph block, the marker "Operation:" and the        *)
(* tokens of the operation line.                                              *)

PrologPrompt(graph_marker, graph_lines, operation_marker, operation_line) ==
    [graph_marker |-> graph_marker, graph_lines |-> graph_lines,
     operation_marker |-> operation_marker, operation_line |-> operation_line]

\* what extract_target_node gives: the pair (query_node, depth), a depth of
\* None being the empty sequence, or the ValueError that leaves the function
TargetNode(query_node, depth) == [raises |-> FALSE, query_node |-> query_node, depth |-> depth]
TargetRaises == [raises |-> TRUE, query_node |-> None, depth |-> <<>>]

\* extract_target_node on the line of the operation text
extract_target_node(operation_line) ==
    IF ParentsPhrase \in Range(operation_line)
    THEN TargetNode(StripPiece(SplitOn(operation_line, ParentsPhrase)[2]), <<>>)
    ELSE IF BfsPhrase \in Range(operation_line)
    THEN LET pieces == SplitOn(SplitOn(operation_line, BfsPhrase)[2], DepthPhrase)
         IN  IF Len(pieces) # 2
             THEN TargetRaises   \* node_str, depth_str = ... does not unpack
             ELSE IF Len(pieces[2]) # 1 \/ pieces[2][1] \notin Digits
             THEN TargetRaises   \* int(depth_str.strip('.'))
             ELSE TargetNode(StripPiece(pieces[1]), <<IntOf(pieces[2][1])>>)
    ELSE TargetNode(None, <<>>)

\* the record __main__ appends for an entry (lines 157-209), without its timing
result_record(i, entry, target, prolog_result, python_result, final_result) ==
    [entry_index |-> i, problem_type |-> entry.problem_type,
     query_node |-> target.query_node, depth |-> target.depth,
     expected_answer |-> SortSet(Range(entry.answer_nodes)),
     prolog_result |-> prolog_result, python_reference_result |-> python_result,
     status |-> IF SortSet(Range(entry.answer_nodes)) # final_result
                THEN "MISMATCH" ELSE "MATCH"]

\* one iteration of "for i, entry in enumerate(dataset)": the list of records,
\* the skipped indices and the engine afterwards, or the exception that ends
\* the script (no statement of the loop is inside a try)
prolog_loop_body(st, i, entry) ==
    IF ~entry.prompt.operation_marker
    THEN [st EXCEPT !.raised = "IndexError"]   \* prompt.rsplit("Operation:", 1)[1]
    ELSE LET target == extract_target_node(entry.prompt.operation_line)
         IN  IF target.raises
             THEN [st EXCEPT !.raised = "ValueError"]
             ELSE IF target.query_node = None
             THEN [st EXCEPT !.skipped = st.skipped \cup {i}]
             ELSE IF ~entry.prompt.graph_marker
             THEN [st EXCEPT !.raised = "IndexError"]   \* extract_graph_block
             ELSE LET prolog_facts == BuildFacts(entry.prompt.graph_lines)
                      depth == IF target.depth = <<>> THEN 0 ELSE target.depth[1]
                      asked == entry.problem_type \in {"parents", "bfs"}
                      pl == IF asked
                            THEN processar_query_prolog(prolog_facts, entry.problem_type,
                                                        target.query_node, st.engine, depth)
                            ELSE [result |-> <<>>, engine |-> st.engine]
                      python_result ==
                          IF entry.problem_type = "bfs"
                          THEN bfs_iterative(prolog_facts, target.query_node, depth)
                          ELSE <<>>
                  IN  [st EXCEPT
                          !.all_results = Append(st.all_results,
                              result_record(i, entry, target,
                                            IF asked THEN PyList(pl.result) ELSE PyNone,
                                            IF entry.problem_type = "bfs"
                                            THEN PyList(python_result) ELSE PyNone,
                                            pl.result)),
                          !.engine = limpar_base_prolog(pl.engine)]

----------------------------------------------------------------------------
(* Specification of the Prolog batch: __main__ of classic_prolog.py goes      *)
(* through the dataset with one shared engine and writes the records at the   *)
(* end.  The problem_type of an entry agrees with its operation line.         *)

\* prompts whose operation line is recognised, with the problem types they carry
GoodPrologEntries ==
    { <<PrologPrompt(TRUE, <<HeaderLine>> \o ExampleLines, TRUE, <<ParentsPhrase, "C">>), "parents">>,
      <<PrologPrompt(TRUE, <<HeaderLine>> \o ChainLines, TRUE, <<ParentsPhrase, "C">>), "parents">>,
      <<PrologPrompt(TRUE, <<HeaderLine>> \o ChainLines, TRUE, <<ParentsPhrase, "C">>), "other">>,
      <<PrologPrompt(TRUE, <<HeaderLine>> \o ExampleLines, TRUE,
                     <<BfsPhrase, "A", DepthPhrase, "1">>), "bfs">>,
      <<PrologPrompt(TRUE, <<HeaderLine>> \o ChainLines, TRUE,
                     <<BfsPhrase, "A", DepthPhrase, "2">>), "bfs">> }

\* malformed examples: an unrecognised operation line, a missing graph marker,
\* a BFS line without its depth, a missing "Operation:" marker
MalformedPrologEntries ==
    { <<PrologPrompt(TRUE, <<HeaderLine>> \o ExampleLines, TRUE, <<"Sort the nodes">>), "parents">>,
      <<PrologPrompt(FALSE, ExampleLines, TRUE, <<ParentsPhrase, "C">>), "parents">>,
      <<PrologPrompt(TRUE, <<HeaderLine>> \o ExampleLines, TRUE, <<BfsPhrase, "A">>), "bfs">>,
      <<PrologPrompt(TRUE, <<HeaderLine>> \o ExampleLines, FALSE, <<>>), "bfs">> }

PrologEntries ==
    { [prompt |-> e[1], problem_type |-> e[2], answer_nodes |-> a] :
        e \in GoodPrologEntries \cup MalformedPrologEntries, a \in { <<>>, <<"B">> } }

InitBatch ==
    /\ dataset \in SeqsUpTo(PrologEntries, MaxItems)
    /\ entry_i = 0
    /\ all_results = <<>>
    /\ skipped_entries = {}
    /\ results_json = NoListFile
    /\ bpc = "loop"
    /\ QueryIdle /\ ScoreIdle /\ ParseIdle /\ MainIdle /\ ClassicIdle /\ CollectIdle

\* one iteration of the loop over the dataset
BatchStep ==
    /\ bpc = "loop"
    /\ entry_i < Len(dataset)
    /\ LET st == prolog_loop_body(
                     [all_results |-> all_results, skipped |-> skipped_entries,
                      engine |-> engine, raised |-> None],
                     entry_i, dataset[entry_i + 1])
       IN  /\ all_results' = st.all_results
           /\ skipped_entries' = st.skipped
           /\ engine' = st.engine
           /\ IF st.raised # None
              THEN bpc' = "crashed" /\ UNCHANGED entry_i
              ELSE entry_i' = entry_i + 1 /\ UNCHANGED bpc
    /\ UNCHANGED <<dataset, results_json, lines, graph, facts, raised, qres,
                   scoreVars, parseVars, mainVars, classicVars, collectVars>>

\* after the loop: json.dump(all_results) into classic_prolog_results.json
BatchEnd ==
    /\ bpc = "loop"
    /\ entry_i = Len(dataset)
    /\ results_json' = [exists |-> TRUE, content |-> all_results]
    /\ bpc' = "done"
    /\ UNCHANGED <<dataset, entry_i, all_results, skipped_entries,
                   queryVars, scoreVars, parseVars, mainVars, classicVars, collectVars>>

NextBatch == BatchStep \/ BatchEnd

SpecBatch == InitBatch /\ [][NextBatch]_vars

----------------------------------------------------------------------------
(* modern_technique.py: the sample collection.  A file is a record with the   *)
(* flag "exists" and its content; a collected result carries the index of    *)
(* its dataset item in the place of the item's prompt text.                   *)

\* float('inf'): above every length a list of the model can have
Infinity == MaxDataset + 1

\* the file after json.dump(content, f)
WrittenFile(content) == [exists |-> TRUE, content |-> content]

\* lines 33-34: the indices of the items of a problem type, in dataset order
indices_of_type(types, problem_type) ==
    SelectSeq([i \in 1..Len(types) |-> i - 1], LAMBDA i : types[i + 1] = problem_type)

\* random.shuffle: every ordering of the list
shuffles(indices) ==
    {p \in [1..Len(indices) -> Range(indices)] : Range(p) = Range(indices)}

\* lines 142-144: the number of collected results of a type
counts(res, problem_type) ==
    Len(SelectSeq(res, LAMBDA r : r.problem_type = problem_type))

\* a faulty variant of should_process: a type at the target is still processed
should_process_at_target(count) == count <= TARGET_SAMPLES_PER_TYPE

\* lines 156-157: process_parents / process_bfs
should_process(count) == count < TARGET_SAMPLES_PER_TYPE

\* a faulty variant of select_type: bfs is taken on a tie of the pointers
select_type_bfs_on_tie(st, res) ==
    LET process_parents == should_process(counts(res, "parents"))
        process_bfs     == should_process(counts(res, "bfs"))
    IN  IF counts(res, "parents") >= TARGET_SAMPLES_PER_TYPE
           /\ counts(res, "bfs") >= TARGET_SAMPLES_PER_TYPE
        THEN None
        ELSE IF ~process_parents /\ ~process_bfs THEN None
        ELSE IF process_parents
                /\ (~process_bfs \/ st.pointers.parents < st.pointers.bfs)
        THEN "parents"
        ELSE IF process_bfs THEN "bfs"
        ELSE None

\* lines 142-168: the type the iteration works on, or None when the loop breaks
select_type(st, res) ==
    LET process_parents == should_process(counts(res, "parents"))
        process_bfs     == should_process(counts(res, "bfs"))
    IN  IF counts(res, "parents") >= TARGET_SAMPLES_PER_TYPE
           /\ counts(res, "bfs") >= TARGET_SAMPLES_PER_TYPE
        THEN None
        ELSE IF ~process_parents /\ ~process_bfs THEN None
        ELSE IF process_parents
                /\ (~process_bfs \/ st.pointers.parents <= st.pointers.bfs)
        THEN "parents"
        ELSE IF process_bfs THEN "bfs"
        ELSE None

\* state['pointers'][current_type] and the index list of the type
pointer_of(st, problem_type) ==
    IF problem_type = "parents" THEN st.pointers.parents ELSE st.pointers.bfs

indices_list_of(problem_type) ==
    IF problem_type = "parents" THEN indices_parents ELSE indices_bfs

\* state['pointers'][problem_type] = value
with_pointer(st, problem_type, value) ==
    IF problem_type = "parents"
    THEN [st EXCEPT !.pointers.parents = value]
    ELSE [st EXCEPT !.pointers.bfs = value]

\* a faulty variant of pointer_after_attempt: the pointer stays where it is
pointer_after_attempt_stay(current_pointer) == current_pointer

\* line 184: state['pointers'][current_type] += 1
pointer_after_attempt(current_pointer) == current_pointer + 1

\* what process_item returns when the inference went through
collected_result(problem_type, dataset_index) ==
    [problem_type |-> problem_type, prompt |-> dataset_index, output |-> "generated_text"]

----------------------------------------------------------------------------
(* Specification of the collection: runs of modern_technique.main in one      *)
(* working directory, each of which may be interrupted at any statement that  *)
(* touches a file or the loop, and started again.                             *)

DatasetTypes == SeqsUpTo({"parents", "bfs"}, MaxDataset)

\* the positions at which a run is executing
Running ==
    {"start", "write_indices_parents", "write_indices_bfs", "write_state",
     "write_results", "load", "loop", "selected", "save_state", "save_results"}

\* the memory of a process that has not loaded anything yet
FreshMemory ==
    /\ state' = NoStateFile.content
    /\ collected_results' = <<>>
    /\ indices_parents' = <<>>
    /\ indices_bfs' = <<>>
    /\ current_type' = None

InitCollect ==
    /\ dataset_types \in DatasetTypes
    /\ STATE_FILE = NoStateFile /\ RESULTS_FILE = NoListFile
    /\ INDICES_PARENTS_FILE = NoListFile /\ INDICES_BFS_FILE = NoListFile
    /\ state = NoStateFile.content /\ collected_results = <<>>
    /\ indices_parents = <<>> /\ indices_bfs = <<>>
    /\ current_type = None
    /\ tpc = "start"
    /\ QueryIdle /\ ScoreIdle /\ ParseIdle /\ MainIdle /\ ClassicIdle /\ BatchIdle

\* initialize_state_and_indices, lines 24-37: the resume branch, or the two
\* shuffled index lists
InitializeCheck ==
    /\ tpc = "start"
    /\ IF INDICES_PARENTS_FILE.exists /\ STATE_FILE.exists
       THEN /\ tpc' = "load"
            /\ UNCHANGED <<indices_parents, indices_bfs>>
       ELSE /\ indices_parents' \in shuffles(indices_of_type(dataset_types, "parents"))
            /\ indices_bfs' \in shuffles(indices_of_type(dataset_types, "bfs"))
            /\ tpc' = "write_indices_parents"
    /\ UNCHANGED <<dataset_types, STATE_FILE, RESULTS_FILE, INDICES_PARENTS_FILE,
                   INDICES_BFS_FILE, state, collected_results, current_type,
                   queryVars, scoreVars, parseVars, mainVars, classicVars, batchVars>>

\* lines 39-40
WriteIndicesParents ==
    /\ tpc = "write_indices_parents"
    /\ INDICES_PARENTS_FILE' = WrittenFile(indices_parents)
    /\ tpc' = "write_indices_bfs"
    /\ UNCHANGED <<dataset_types, STATE_FILE, RESULTS_FILE, INDICES_BFS_FILE, state,
                   collected_results, indices_parents, indices_bfs, current_type,
                   queryVars, scoreVars, parseVars, mainVars, classicVars, batchVars>>

\* lines 41-42
WriteIndicesBfs ==
    /\ tpc = "write_indices_bfs"
    /\ INDICES_BFS_FILE' = WrittenFile(indices_bfs)
    /\ tpc' = "write_state"
    /\ UNCHANGED <<dataset_types, STATE_FILE, RESULTS_FILE, INDICES_PARENTS_FILE, state,
                   collected_results, indices_parents, indices_bfs, current_type,
                   queryVars, scoreVars, parseVars, mainVars, classicVars, batchVars>>

\* lines 46-48
WriteInitialState ==
    /\ tpc = "write_state"
    /\ STATE_FILE' = WrittenFile([pointers |-> [parents |-> 0, bfs |-> 0]])
    /\ tpc' = "write_results"
    /\ UNCHANGED <<dataset_types, RESULTS_FILE, INDICES_PARENTS_FILE, INDICES_BFS_FILE,
                   state, collected_results, indices_parents, indices_bfs, current_type,
                   queryVars, scoreVars, parseVars, mainVars, classicVars, batchVars>>

\* lines 50-52
WriteInitialResults ==
    /\ tpc = "write_results"
    /\ RESULTS_FILE' = IF ~RESULTS_FILE.exists THEN WrittenFile(<<>>) ELSE RESULTS_FILE
    /\ tpc' = "load"
    /\ UNCHANGED <<dataset_types, STATE_FILE, INDICES_PARENTS_FILE, INDICES_BFS_FILE,
                   state, collected_results, indices_parents, indices_bfs, current_type,
                   queryVars, scoreVars, parseVars, mainVars, classicVars, batchVars>>

\* load_state: the four files are opened and read; open() of a missing file
\* raises FileNotFoundError, which nothing catches
LoadState ==
    /\ tpc = "load"
    /\ IF STATE_FILE.exists /\ RESULTS_FILE.exists
          /\ INDICES_PARENTS_FILE.exists /\ INDICES_BFS_FILE.exists
       THEN /\ state' = STATE_FILE.content
            /\ collected_results' = RESULTS_FILE.content
            /\ indices_parents' = INDICES_PARENTS_FILE.content
            /\ indices_bfs' = INDICES_BFS_FILE.content
            /\ tpc' = "loop"
       ELSE /\ tpc' = "crashed"
            /\ UNCHANGED <<state, collected_results, indices_parents, indices_bfs>>
    /\ UNCHANGED <<dataset_types, STATE_FILE, RESULTS_FILE, INDICES_PARENTS_FILE,
                   INDICES_BFS_FILE, current_type,
                   queryVars, scoreVars, parseVars, mainVars, classicVars, batchVars>>

\* lines 141-168: the counts, the two breaks and the choice of the type
LoopTop ==
    /\ tpc = "loop"
    /\ LET selected == select_type(state, collected_results)
       IN  IF selected = None
           THEN tpc' = "done" /\ UNCHANGED current_type
           ELSE tpc' = "selected" /\ current_type' = selected
    /\ UNCHANGED <<dataset_types, STATE_FILE, RESULTS_FILE, INDICES_PARENTS_FILE,
                   INDICES_BFS_FILE, state, collected_results, indices_parents,
                   indices_bfs,
                   queryVars, scoreVars, parseVars, mainVars, classicVars, batchVars>>

\* lines 170-176: the index list of the type is used up
Exhausted ==
    /\ tpc = "selected"
    /\ pointer_of(state, current_type) >= Len(indices_list_of(current_type))
    /\ state' = with_pointer(state, current_type, Infinity)
    /\ tpc' = "loop"
    /\ UNCHANGED <<dataset_types, STATE_FILE, RESULTS_FILE, INDICES_PARENTS_FILE,
                   INDICES_BFS_FILE, collected_results, indices_parents, indices_bfs,
                   current_type,
                   queryVars, scoreVars, parseVars, mainVars, classicVars, batchVars>>

\* lines 178-188: process_item on the next index of the type; it returns a
\* result or None
ProcessItem(produced) ==
    /\ tpc = "selected"
    /\ pointer_of(state, current_type) < Len(indices_list_of(current_type))
    /\ LET current_pointer == pointer_of(state, current_type)
           dataset_index_to_process == indices_list_of(current_type)[current_pointer + 1]
       IN  /\ state' = with_pointer(state, current_type,
                                    pointer_after_attempt(current_pointer))
           /\ collected_results' =
                  IF produced
                  THEN Append(collected_results,
                              collected_result(current_type, dataset_index_to_process))
                  ELSE collected_results
    /\ tpc' = "save_state"
    /\ UNCHANGED <<dataset_types, STATE_FILE, RESULTS_FILE, INDICES_PARENTS_FILE,
                   INDICES_BFS_FILE, indices_parents, indices_bfs, current_type,
                   queryVars, scoreVars, parseVars, mainVars, classicVars, batchVars>>

\* save_state, lines 70-71
SaveStateFile ==
    /\ tpc = "save_state"
    /\ STATE_FILE' = WrittenFile(state)
    /\ tpc' = "save_results"
    /\ UNCHANGED <<dataset_types, RESULTS_FILE, INDICES_PARENTS_FILE, INDICES_BFS_FILE,
                   state, collected_results, indices_parents, indices_bfs, current_type,
                   queryVars, scoreVars, parseVars, mainVars, classicVars, batchVars>>

\* save_state, lines 72-73
SaveResultsFile ==
    /\ tpc = "save_results"
    /\ RESULTS_FILE' = WrittenFile(collected_results)
    /\ tpc' = "loop"
    /\ UNCHANGED <<dataset_types, STATE_FILE, INDICES_PARENTS_FILE, INDICES_BFS_FILE,
                   state, collected_results, indices_parents, indices_bfs, current_type,
                   queryVars, scoreVars, parseVars, mainVars, classicVars, batchVars>>

\* KeyboardInterrupt, lines 196-200: the process ends where it is
Interrupt ==
    /\ tpc \in Running
    /\ tpc' = "interrupted"
    /\ FreshMemory
    /\ UNCHANGED <<dataset_types, STATE_FILE, RESULTS_FILE, INDICES_PARENTS_FILE,
                   INDICES_BFS_FILE,
                   queryVars, scoreVars, parseVars, mainVars, classicVars, batchVars>>

\* the script is started again in the same directory
Restart ==
    /\ tpc \in {"interrupted", "crashed", "done"}
    /\ tpc' = "start"
    /\ FreshMemory
    /\ UNCHANGED <<dataset_types, STATE_FILE, RESULTS_FILE, INDICES_PARENTS_FILE,
                   INDICES_BFS_FILE,
                   queryVars, scoreVars, parseVars, mainVars, classicVars, batchVars>>

\* one run of main, from its first statement to its end
NextRun ==
    \/ InitializeCheck
    \/ WriteIndicesParents
    \/ WriteIndicesBfs
    \/ WriteInitialState
    \/ WriteInitialResults
    \/ LoadState
    \/ LoopTop
    \/ Exhausted
    \/ \E produced \in BOOLEAN : ProcessItem(produced)
    \/ SaveStateFile
    \/ SaveResultsFile

NextCollect == NextRun \/ Interrupt \/ Restart

SpecCollect == InitCollect /\ [][NextCollect]_vars

\* a single run that nothing interrupts: the interpreter goes on to its next
\* statement as long as there is one
SpecRun == InitCollect /\ [][NextRun]_vars /\ WF_vars(NextRun)

----------------------------------------------------------------------------
(* Properties of the queries, stated over SpecQuery *)

\* the edges u -> v the input lines state
EdgeSet(ls) == {<<l[1], l[3]>> : l \in {x \in Range(ls) : Len(x) = 3 /\ x[2] = Arrow}}

\* a list that is strictly ascending: sorted, no node twice
StrictlyAscending(s) == \A i \in 1..(Len(s) - 1) : Ord(s[i]) < Ord(s[i + 1])

RECURSIVE WalkEnds(_, _, _)
\* the nodes some walk of exactly k edges from start ends in
WalkEnds(E, start, k) ==
    IF k = 0 THEN {start}
    ELSE {e[2] : e \in {f \in E : f[1] \in WalkEnds(E, start, k - 1)}}

\* the nodes whose shortest-path distance from start is exactly d
AtDistance(E, start, d) ==
    WalkEnds(E, start, d) \ UNION {WalkEnds(E, start, j) : j \in 0..(d - 1)}

\* the lines that split into exactly two names around the separator
WellFormedLines(ls) == SelectSeq(ls, LAMBDA l : Len(l) = 3 /\ l[2] = Arrow)

\* C1: find_parents(graph, t) returns exactly the sources u with an edge u -> t,
\* each once, and the empty list when no edge points to t.
C1_ParentsExact ==
    qres.op = "parents" =>
        LET E == EdgeSet(lines)
            t == qres.node
        IN  /\ Range(qres.classic) = {e[1] : e \in {f \in E : f[2] = t}}
            /\ Range(qres.classic) =
                   {u \in DOMAIN graph : t \in Range(graph[u])}
            /\ Len(qres.classic) = Cardinality(Range(qres.classic))
            /\ ((\A e \in E : e[2] # t) => qres.classic = <<>>)

\* a parents query with two parents, on a graph where another node is no parent
C1_Witness ==
    /\ qres.op = "parents"
    /\ Len(qres.classic) = 2
    /\ \E u \in DOMAIN graph : u \notin Range(qres.classic)

\* C2: for depth d >= 1 find_bfs_at_depth returns exactly the nodes at shortest
\* distance d from start: not the union of the levels, no node reached earlier,
\* never the start node; on A->B, B->C, A->C, C->D from A: [B, C], [D], [].
C2_BfsExactDepth ==
    (qres.op = "bfs" /\ qres.depth >= 1) =>
        /\ Range(qres.classic) = AtDistance(EdgeSet(lines), qres.node, qres.depth)
        /\ StrictlyAscending(qres.classic)
        /\ qres.node \notin Range(qres.classic)
        /\ (lines = ExampleLines /\ qres.node = "A") =>
               qres.classic = CASE qres.depth = 1 -> <<"B", "C">>
                                [] qres.depth = 2 -> <<"D">>
                                [] OTHER          -> <<>>

\* a depth-2 query on a graph with a cycle back to the start and a node that
\* two walks of different lengths reach
C2_Witness ==
    /\ qres.op = "bfs" /\ qres.depth = 2
    /\ qres.classic # <<>>
    /\ qres.node \in WalkEnds(EdgeSet(lines), qres.node, 2)
    /\ WalkEnds(EdgeSet(lines), qres.node, 1) \cap
           WalkEnds(EdgeSet(lines), qres.node, 2) # {}

\* C3: a BFS query with depth 0 returns the empty list in each implementation,
\* whether the start node is in the graph or not.
C3_DepthZeroEmpty ==
    (qres.op = "bfs" /\ qres.depth = 0) =>
        /\ qres.classic = <<>>
        /\ qres.iterative = <<>>
        /\ qres.prolog = <<>>

\* depth 0 from a start node with outgoing edges
C3_Witness ==
    /\ qres.op = "bfs" /\ qres.depth = 0
    /\ qres.node \in DOMAIN graph
    /\ graph[qres.node] # <<>>

\* C4: bfs_iterative, find_bfs_at_depth and the bfs_engine rules (after the
\* post-processing of processar_query_prolog) return the same list for every
\* edge list, start node and depth >= 0.
C4_BfsImplementationsAgree ==
    qres.op = "bfs" =>
        /\ qres.iterative = qres.classic
        /\ qres.prolog = qres.classic

\* a query answered at the second level or deeper, on a repeated edge line
C4_Witness ==
    /\ qres.op = "bfs" /\ qres.depth >= 2
    /\ qres.classic # <<>>
    /\ qres.iterative # <<>>
    /\ qres.prolog # <<>>
    /\ \E i, j \in 1..Len(lines) : i < j /\ lines[i] = lines[j] /\ Arrow \in Range(lines[i])

\* C12: a line that holds the separator but does not split into exactly two
\* names is skipped by the builders: no exception is raised, no edge is added,
\* and the graph and the facts are those of the other lines.
C12_MalformedLineSkipped ==
    /\ ~raised
    /\ DOMAIN graph = {e[1] : e \in EdgeSet(lines)}
    /\ \A u \in DOMAIN graph : Range(graph[u]) = {e[2] : e \in {f \in EdgeSet(lines) : f[1] = u}}
    /\ Range(facts) = {FactText(e[1], e[2]) : e \in EdgeSet(lines)}

\* the builders have read a line with the separator twice
C12_Witness ==
    \E i \in 1..Len(lines) : Arrow \in Range(lines[i]) /\ Len(SplitOn(lines[i], Arrow)) > 2

\* the part of C12 that holds: on lines that all split in two, no builder raises
\* and both hold exactly the stated edges
C12_WellFormedLinesBuilt ==
    WellFormedLines(lines) = SelectSeq(lines, LAMBDA l : Arrow \in Range(l)) =>
        C12_MalformedLineSkipped

\* the sources and the destinations the input lines name
SourceNodes(ls) == {e[1] : e \in EdgeSet(ls)}
DestinationNodes(ls) == {e[2] : e \in EdgeSet(ls)}

\* C13: a BFS from a start node that is the source of no edge returns the empty
\* list for every depth, and a parents query for a target that appears nowhere
\* returns the empty list: a query against an absent node is not an error.
C13_AbsentNodeEmpty ==
    /\ (qres.op = "bfs" /\ qres.node \notin SourceNodes(lines)) =>
           /\ qres.classic = <<>>
           /\ qres.iterative = <<>>
           /\ qres.prolog = <<>>
    /\ (qres.op = "parents"
            /\ qres.node \notin SourceNodes(lines) \cup DestinationNodes(lines)) =>
           /\ qres.classic = <<>>
           /\ qres.prolog = <<>>

\* a BFS of depth >= 1 from a node that is a destination but never a source
C13_Witness ==
    /\ qres.op = "bfs" /\ qres.depth >= 1
    /\ qres.node \in DestinationNodes(lines) \ SourceNodes(lines)

\* C14: once a BFS level is empty the result is the empty list for that depth
\* and for every larger depth: if the query of depth d >= 1 returns [], so does
\* every query of a depth d' > d.
C14_EmptyLevelStaysEmpty ==
    (qres.op = "bfs" /\ qres.depth >= 1) =>
        /\ (\E d \in 1..qres.depth : AtDistance(EdgeSet(lines), qres.node, d) = {}) =>
               /\ qres.classic = <<>>
               /\ qres.prolog = <<>>
               /\ qres.iterative = <<>>
        /\ qres.classic = <<>> =>
               \A d2 \in (qres.depth + 1)..(MaxDepth + 1) :
                   find_bfs_at_depth(graph, qres.node, d2) = <<>>
        /\ qres.prolog = <<>> =>
               \A d2 \in (qres.depth + 1)..(MaxDepth + 1) :
                   processar_query_prolog(facts, "bfs", qres.node, <<>>, d2).result = <<>>

\* a query two levels deeper than the last level that holds a node
C14_Witness ==
    /\ qres.op = "bfs" /\ qres.depth = 3
    /\ AtDistance(EdgeSet(lines), qres.node, 1) # {}
    /\ AtDistance(EdgeSet(lines), qres.node, 2) = {}
    /\ qres.classic = <<>>

\* C15: when the builder adds an edge u -> t, find_parents(graph, t) becomes the
\* old result plus u; when it adds an edge u -> v with v # t,
\* find_parents(graph, t) does not change.
C15_ParentsAddEdge ==
    [][ (Len(lines') = Len(lines) + 1 /\ ~raised') =>
            LET l == lines'[Len(lines')]
            IN  (Len(l) = 3 /\ l[2] = Arrow) =>
                    \A t \in Nodes :
                        IF l[3] = t
                        THEN find_parents(graph', t) =
                                 SortSet(Range(find_parents(graph, t)) \cup {l[1]})
                        ELSE find_parents(graph', t) = find_parents(graph, t) ]_vars

\* the last line added a second parent of the queried node, through an edge
\* that was not there before, from a source that already had another edge
C15_Witness ==
    /\ qres.op = "parents"
    /\ Len(qres.classic) = 2
    /\ Len(lines) >= 3
    /\ LET l    == lines[Len(lines)]
           before == SubSeq(lines, 1, Len(lines) - 1)
       IN  /\ Len(l) = 3 /\ l[2] = Arrow /\ l[3] = qres.node
           /\ <<l[1], l[3]>> \notin EdgeSet(before)
           /\ l[1] \in SourceNodes(before)

\* C16: repeating an edge line that is already present (the classic builder
\* keeps it as a repeated destination, parse_graph_to_prolog collapses it to
\* one fact) leaves the answer of the parents query and of the BFS query unchanged.
\* (The answers on a fact list that differs from prolog_facts are compared one
\* by one; on the same list the answers are the ones already returned.)
C16_DuplicateEdgesIrrelevant ==
    ~raised =>
        LET present  == {l \in Range(lines) : Len(l) = 3 /\ l[2] = Arrow}
            restated == {prolog_build_line(facts, l) : l \in present} \ {facts}
        IN  /\ \A l \in present :
                   LET g2 == classic_build_line(graph, l)
                   IN  /\ Len(g2[l[1]]) = Len(graph[l[1]]) + 1
                       /\ qres.op = "parents" =>
                              find_parents(g2, qres.node) = qres.classic
                       /\ qres.op = "bfs" =>
                              find_bfs_at_depth(g2, qres.node, qres.depth) = qres.classic
            /\ \A l \in present : prolog_build_line(facts, l) = facts
            /\ \A f2 \in restated :
                   /\ qres.op = "parents" =>
                          processar_query_prolog(f2, "parents", qres.node, <<>>, 0).result
                              = qres.prolog
                   /\ qres.op = "bfs" =>
                          /\ bfs_iterative(f2, qres.node, qres.depth) = qres.iterative
                          /\ processar_query_prolog(f2, "bfs", qres.node, <<>>,
                                                    qres.depth).result = qres.prolog

\* a non-empty BFS answer on lines where an edge is already repeated
C16_Witness ==
    /\ qres.op = "bfs" /\ qres.depth >= 1 /\ qres.classic # <<>>
    /\ Len(facts) < Cardinality({i \in 1..Len(lines) : Arrow \in Range(lines[i])})
    /\ \E u \in DOMAIN graph : Len(graph[u]) > Cardinality(Range(graph[u]))

\* C17: every list returned by find_parents, find_bfs_at_depth, bfs_iterative
\* and processar_query_prolog is strictly ascending: sorted, no node twice.
C17_ResultsStrictlyAscending ==
    qres.op # "none" =>
        /\ StrictlyAscending(qres.classic)
        /\ StrictlyAscending(qres.iterative)
        /\ StrictlyAscending(qres.prolog)

\* a parents query with two parents whose lines come in descending order
C17_Witness ==
    /\ qres.op = "parents"
    /\ Len(qres.prolog) >= 2
    /\ \E i, j \in 1..Len(lines) :
           /\ i < j
           /\ Len(lines[i]) = 3 /\ Len(lines[j]) = 3
           /\ lines[i][3] = qres.node /\ lines[j][3] = qres.node
           /\ Ord(lines[j][1]) < Ord(lines[i][1])

\* C18: the builder takes edges only from the lines that hold the separator;
\* each source's list holds its destinations in the order of the lines, and a
\* node that is only a destination is no key of the graph.
C18_BuilderOrderAndKeys ==
    ~raised =>
        /\ DOMAIN graph = SourceNodes(lines)
        /\ \A u \in DOMAIN graph :
               LET ls == SelectSeq(WellFormedLines(lines), LAMBDA l : l[1] = u)
               IN  graph[u] = [i \in 1..Len(ls) |-> ls[i][3]]
        /\ \A v \in DestinationNodes(lines) \ SourceNodes(lines) : v \notin DOMAIN graph

\* a header line, a source whose destinations come in descending order, and a
\* node that is only a destination
C18_Witness ==
    /\ ~raised
    /\ HeaderLine \in Range(lines)
    /\ \E u \in DOMAIN graph :
           Len(graph[u]) = 2 /\ Ord(graph[u][2]) < Ord(graph[u][1])
    /\ DestinationNodes(lines) \ SourceNodes(lines) # {}

\* C22: a query leaves the graph as it was: the step that answers a parents
\* or a BFS query changes no destination list and creates no key, also when
\* the queried node, or a node the traversal reaches, is not a key; a
\* following query therefore runs on the same graph.
C22_QueriesLeaveGraph ==
    [][ (qres.op = "none" /\ qres'.op # "none") =>
            /\ DOMAIN graph' = DOMAIN graph
            /\ graph' = graph ]_vars

\* a BFS of depth two was answered from a node that is no key of the graph,
\* or reached a node that is no key
C22_Witness ==
    /\ qres.op = "bfs"
    /\ qres.depth >= 2
    /\ graph # <<>>
    /\ \/ qres.node \notin DOMAIN graph
       \/ \E n \in Range(GraphGet(graph, qres.node)) : n \notin DOMAIN graph

----------------------------------------------------------------------------
(* Properties of the scoring, stated over SpecScore *)

\* the score of section 4.3 for two sets that are not both empty
PolicyScore(P, A) ==
    LET TP == Cardinality(P \cap A)
        precision == IF P # {} THEN Frac(TP, Cardinality(P)) ELSE RZero
        recall    == IF A # {} THEN Frac(TP, Cardinality(A)) ELSE RZero
        f1        == IF precision[1] + recall[1] > 0
                     THEN Frac(2 * precision[1] * recall[1],
                               precision[1] * recall[2] + recall[1] * precision[2])
                     ELSE RZero
    IN  <<precision, recall, f1>>

\* the rule of section 4.3, with its first branch
Policy43(P, A) == IF P = {} /\ A = {} THEN <<ROne, ROne, ROne>> ELSE PolicyScore(P, A)

InUnit(x) == ~Raised(x) /\ 0 <= x[1] /\ x[1] <= x[2]

\* C5: for lists that are not both empty modern_metrics.calculate_metrics
\* returns TP/|predicted| (0 if empty), TP/|actual| (0 if empty) and
\* 2pr/(p+r) (0 if p+r = 0) over the sets of the lists; duplicates change nothing.
C5_ModernScoreFormula ==
    (scores.done /\ ~(predicted = <<>> /\ actual = <<>>)) =>
        /\ scores.modern = PolicyScore(Range(predicted), Range(actual))
        /\ scores.modern =
               modern_calculate_metrics(SortSet(Range(predicted)), SortSet(Range(actual)))

\* a scored pair with a repeated prediction, a hit and a miss
C5_Witness ==
    /\ scores.done
    /\ Len(predicted) > Cardinality(Range(predicted))
    /\ Range(predicted) \cap Range(actual) # {}
    /\ Range(predicted) \ Range(actual) # {}
    /\ scores.modern[3] # RZero /\ scores.modern[3] # ROne

\* C6: two empty sets score precision = recall = f1 = 1.0 in every scoring function.
C6_BothEmptyPerfect ==
    (scores.done /\ Range(predicted) = {} /\ Range(actual) = {}) =>
        /\ scores.modern = <<ROne, ROne, ROne>>
        /\ scores.calc = <<ROne, ROne, ROne>>
        /\ scores.classic = <<ROne, ROne, ROne>>
        /\ scores.prolog = <<ROne, ROne, ROne>>

C6_Witness == scores.done /\ predicted = <<>> /\ actual = <<>>

\* C7: the four scoring functions return the score of section 4.3 for every
\* pair of node lists, also when the true set is empty and the predicted is not.
C7_SingleScoringRule ==
    scores.done =>
        LET policy == Policy43(Range(predicted), Range(actual))
        IN  /\ scores.calc = policy
            /\ scores.classic = policy
            /\ scores.prolog = policy
            /\ scores.modern = policy

\* an empty true set scored against a non-empty prediction
C7_Witness ==
    /\ scores.done /\ actual = <<>> /\ predicted # <<>>
    /\ scores.calc = <<RZero, RZero, RZero>>

\* C8: scoring never divides by zero, and precision, recall and f1 lie in [0, 1]
\* for every pair of lists, empty ones included.
C8_NoZeroDivisionUnitInterval ==
    scores.done =>
        \A r \in {scores.modern, scores.calc, scores.classic, scores.prolog} :
            \A i \in 1..3 : InUnit(r[i])

\* an empty prediction scored against a non-empty true set
C8_Witness ==
    /\ scores.done /\ predicted = <<>> /\ actual # <<>>
    /\ scores.modern = <<RZero, RZero, RZero>>

----------------------------------------------------------------------------
(* Properties of the extraction, stated over SpecParse *)

\* the text has no parseable answer for the marker: the marker is missing, or
\* no list is closed anywhere
NoParseableAnswer(txt, marker) == marker \notin Range(txt) \/ "]" \notin Range(txt)

\* texts whose marker is followed by an empty list
EmptyListTexts(marker) ==
    {<<marker, "[", "]">>, <<marker, Blank, "[", "]">>, <<marker, "[", Blank, "]">>}

\* C9: every extraction function returns, for a text without the marker or
\* with an unparsable list, an outcome that differs from the outcome it returns
\* for a text whose marker is followed by an empty list.
C9_ExtractionDistinguishesFailure ==
    outcome.done =>
        /\ NoParseableAnswer(text, FinalAnswerMarker) =>
               \A e \in EmptyListTexts(FinalAnswerMarker) :
                   outcome.parse_output # parse_output(e)
        /\ NoParseableAnswer(text, PredictionMarker) =>
               \A e \in EmptyListTexts(PredictionMarker) :
                   outcome.extract # extract_prediction_from_prompt(e)

\* the half of C9 that holds: parse_output tells the two cases apart
C9_ParseOutputDistinguishes ==
    outcome.done =>
        (NoParseableAnswer(text, FinalAnswerMarker) =>
            \A e \in EmptyListTexts(FinalAnswerMarker) :
                outcome.parse_output # parse_output(e))

\* extract_prediction_from_prompt has read a text without its marker
C9_Witness ==
    /\ outcome.done
    /\ PredictionMarker \notin Range(text)
    /\ text # <<>>

----------------------------------------------------------------------------
(* Properties of modern_metrics.main, stated over SpecMain *)

\* the items consumed so far
Consumed == SubSeq(data, 1, idx)

\* item i of the input, as it was read
OriginalOf(rec) ==
    [output |-> rec.output, answer_nodes |-> rec.answer_nodes,
     problem_type |-> rec.problem_type]

\* C10: an item whose extraction failed is counted in items_with_failed_parsing
\* and is in no average and no output record; an item whose extraction found an
\* empty list is scored and kept; failures + output records = total items.
C10_FailuresSeparateFromEmpty ==
    LET failed == {i \in 1..idx : ~parse_output(data[i].output).ok}
        found  == SelectSeq(Consumed, LAMBDA it : parse_output(it.output).ok)
        known  == SelectSeq(found, LAMBDA it : it.problem_type \in {"bfs", "parents"})
    IN  /\ parsing_failures = Cardinality(failed)
        /\ parsing_failures + Len(processed_data) = idx
        /\ [i \in 1..Len(processed_data) |-> OriginalOf(processed_data[i])] = found
        /\ \A i \in 1..Len(processed_data) :
               LET rec == processed_data[i]
                   m   == Policy43(Range(rec.predicted_nodes), Range(rec.answer_nodes))
               IN  /\ parse_output(rec.output).ok
                   /\ rec.predicted_nodes = parse_output(rec.output).nodes
                   /\ rec.metrics = [precision |-> Round4(m[1]), recall |-> Round4(m[2]),
                                     f1_score |-> Round4(m[3])]
        /\ Len(metrics_by_type["bfs"]) + Len(metrics_by_type["parents"]) = Len(known)
        /\ mpc = "done" =>
               /\ idx = Len(data)
               /\ Len(data) > 0 =>
                      /\ general_metrics.written
                      /\ general_metrics.total_items_in_file = Len(data)
                      /\ general_metrics.items_with_failed_parsing = Cardinality(failed)
                      /\ general_metrics.items_with_failed_parsing + Len(processed_data)
                             = general_metrics.total_items_in_file
                      /\ general_metrics.overall.evaluated_items = Len(known)
                      /\ known # <<>> =>
                             LET sc == [i \in 1..Len(known) |->
                                           Policy43(Range(parse_output(known[i].output).nodes),
                                                    Range(known[i].answer_nodes))]
                                 avg(k) == Round4(RDiv(SumOf(sc, k), RInt(Len(known))))
                             IN  /\ general_metrics.overall.average_precision = avg(1)
                                 /\ general_metrics.overall.average_recall = avg(2)
                                 /\ general_metrics.overall.average_f1_score = avg(3)

\* a finished run that met a failed extraction and an extracted empty list
C10_Witness ==
    /\ mpc = "done"
    /\ parsing_failures = 1
    /\ general_metrics.items_with_failed_parsing = 1
    /\ \E i \in 1..Len(processed_data) :
           /\ processed_data[i].predicted_nodes = <<>>
           /\ processed_data[i].answer_nodes # <<>>
           /\ processed_data[i].metrics.f1_score = RZero
    /\ general_metrics.overall.evaluated_items >= 1

----------------------------------------------------------------------------
(* Properties of the classic run, stated over SpecClassic *)

\* the result entries classic_metrics.main has consumed
ConsumedEntries == SubSeq(results, 1, total_items_classic)

\* the entries of a stratum whose output is a node list
ListEntries(entries, stratum) ==
    SelectSeq(entries, LAMBDA e : e.problem_type = stratum /\ e.output.type = "list")

\* the score of section 4.3 of each entry
PolicyScores(entries) ==
    [i \in 1..Len(entries) |->
        Policy43(Range(entries[i].output.v), Range(entries[i].answer_nodes))]

\* C11: an example for which executar_operacao_do_prompt returned a parsing-error
\* value adds nothing to any precision / recall / f1 sum or count of the
\* classic metrics run; only the examples answered with a node list are scored.
C11_ParsingErrorExcluded ==
    \A stratum \in {"bfs", "parents"} :
        LET scored == ListEntries(ConsumedEntries, stratum)
        IN  /\ totals[stratum].count = Len(scored)
            /\ totals[stratum].precision = SumOf(PolicyScores(scored), 1)
            /\ totals[stratum].recall = SumOf(PolicyScores(scored), 2)
            /\ totals[stratum].f1 = SumOf(PolicyScores(scored), 3)

\* a finished run with an example whose operation was not recognised
C11_Witness ==
    /\ cpc = "done"
    /\ \E i \in 1..Len(results) :
           /\ results[i].output.type = "str"
           /\ results[i].problem_type = "bfs"
           /\ results[i].answer_nodes = <<>>

\* the scores <<precision, recall, f1_score>> of scored records
ScoresOf(records) ==
    [i \in 1..Len(records) |-> <<records[i].precision, records[i].recall, records[i].f1_score>>]

\* the scored records of the two strata the scripts report
InStrata(records) == SelectSeq(records, LAMBDA r : r.problem_type \in {"bfs", "parents"})

\* sum / count of one metric over scored records
MeanOf(records, k) == RDiv(SumOf(ScoresOf(records), k), RInt(Len(records)))

RECURSIVE ByTypeOf(_)
\* metrics_by_type of modern_metrics.main for scored records
ByTypeOf(records) ==
    IF records = <<>> THEN [t \in {"bfs", "parents"} |-> <<>>]
    ELSE append_by_type(ByTypeOf(SubSeq(records, 1, Len(records) - 1)),
                        records[Len(records)].problem_type,
                        ScoresOf(records)[Len(records)])

\* the overall count and averages are those of the given records, in the three
\* scripts; modern_metrics rounds its averages to four decimals
OverallIsMeanOf(merged) ==
    LET n      == Len(merged)
        modern == build_general_metrics(Len(outfile), 0, ByTypeOf(outfile)).overall
    IN  /\ accuracy_metrics.written => accuracy_metrics.has_GERAL = (n > 0)
        /\ accuracy_metrics.has_GERAL =>
               /\ accuracy_metrics.GERAL.total_items_processed = n
               /\ accuracy_metrics.GERAL.average_precision = MeanOf(merged, 1)
               /\ accuracy_metrics.GERAL.average_recall = MeanOf(merged, 2)
               /\ accuracy_metrics.GERAL.average_f1_score = MeanOf(merged, 3)
        /\ final_metrics_summary.overall.count = n
        /\ n > 0 =>
               /\ final_metrics_summary.overall.precision = MeanOf(merged, 1)
               /\ final_metrics_summary.overall.recall = MeanOf(merged, 2)
               /\ final_metrics_summary.overall.f1_score = MeanOf(merged, 3)
        /\ outfile # <<>> =>
               /\ modern.evaluated_items = n
               /\ n > 0 =>
                      /\ modern.average_precision = Round4(MeanOf(merged, 1))
                      /\ modern.average_recall = Round4(MeanOf(merged, 2))
                      /\ modern.average_f1_score = Round4(MeanOf(merged, 3))

Orders(n) == {f \in [1..n -> 1..n] : \A i, j \in 1..n : f[i] = f[j] => i = j}

RECURSIVE MetricsLoopOver(_)
\* the loop of classic_metrics.main over the given entries, from its first state
MetricsLoopOver(entries) ==
    IF entries = <<>>
    THEN [totals |-> InitialTotals, outfile |-> <<>>, total_items |-> 0]
    ELSE classic_metrics_loop_body(MetricsLoopOver(SubSeq(entries, 1, Len(entries) - 1)),
                                   entries[Len(entries)])

\* the scored records of one stratum
OfStratum(records, stratum) == SelectSeq(records, LAMBDA r : r.problem_type = stratum)

\* the running sums of a stratum give the averages of its whole list, which
\* modern_metrics._calculate_average_metrics returns rounded to four decimals
StreamingIsBatch(stratum, averages) ==
    LET list  == OfStratum(outfile, stratum)
        batch == calculate_average_metrics(ScoresOf(list), Len(outfile))
    IN  /\ averages.total_items_processed = Len(list)
        /\ batch.evaluated_items = Len(list)
        /\ list # <<>> =>
               /\ averages.average_precision = MeanOf(list, 1)
               /\ averages.average_recall = MeanOf(list, 2)
               /\ averages.average_f1_score = MeanOf(list, 3)
               /\ batch.average_precision = Round4(averages.average_precision)
               /\ batch.average_recall = Round4(averages.average_recall)
               /\ batch.average_f1_score = Round4(averages.average_f1_score)

\* C20: the per-stratum and overall counts and averages do not depend on the
\* order of the records: every permutation of the entries gives the same
\* summaries, and the running sums of the one-record-at-a-time fold give the
\* same averages as averaging the whole list at once.
C20_AggregationOrderIndependent ==
    (cpc = "done" /\ results # <<>>) =>
        /\ \A f \in Orders(Len(results)) :
               LET permuted == [i \in 1..Len(results) |-> results[f[i]]]
                   st       == MetricsLoopOver(permuted)
               IN  /\ build_accuracy_metrics(st.totals) = accuracy_metrics
                   /\ analyze_metrics(st.outfile) = final_metrics_summary
                   /\ build_general_metrics(Len(st.outfile), 0, ByTypeOf(st.outfile))
                          = build_general_metrics(Len(outfile), 0, ByTypeOf(outfile))
        /\ StreamingIsBatch("bfs", accuracy_metrics.BFS)
        /\ StreamingIsBatch("parents", accuracy_metrics.PARENTS)

\* a finished run with two records of one stratum and different scores
C20_Witness ==
    /\ cpc = "done"
    /\ Len(outfile) = 2
    /\ outfile[1].problem_type = "bfs" /\ outfile[2].problem_type = "bfs"
    /\ outfile[1].f1_score # outfile[2].f1_score
    /\ accuracy_metrics.BFS.total_items_processed = 2

----------------------------------------------------------------------------
(* Properties of the Prolog batch, stated over SpecBatch *)

\* the entries the loop has gone through
DoneEntries == 0..(entry_i - 1)

OnFreshEngine(entry) ==
    LET target == extract_target_node(entry.prompt.operation_line)
    IN  processar_query_prolog(BuildFacts(entry.prompt.graph_lines), entry.problem_type,
                               target.query_node, <<>>,
                               IF target.depth = <<>> THEN 0 ELSE target.depth[1]).result

\* C23: whenever the loop is about to take an entry, the shared engine holds
\* no points_to fact (whether the earlier entries were answered, skipped or of
\* another problem type), and every recorded Prolog result is the one the
\* entry's own prompt gives on an empty engine.
C23_EntriesIsolated ==
    /\ bpc = "loop" => engine = <<>>
    /\ \A k \in 1..Len(all_results) :
           LET r == all_results[k]
           IN  r.problem_type \in {"parents", "bfs"} =>
                   r.prolog_result = PyList(OnFreshEngine(dataset[r.entry_index + 1]))

\* two entries with different graphs were answered one after the other, the
\* second one after the facts of the first had been asserted and retracted
C23_Witness ==
    /\ Len(all_results) = 2
    /\ all_results[1].problem_type = "bfs"
    /\ all_results[2].problem_type = "parents"
    /\ dataset[1].prompt.graph_lines # dataset[2].prompt.graph_lines
    /\ all_results[2].prolog_result = PyList(<<"B">>)
    /\ bpc = "loop"

----------------------------------------------------------------------------
(* Properties of the collection, stated over SpecCollect and SpecRun *)

\* the positions of the while loop of main
InLoop == {"loop", "selected", "save_state", "save_results"}

\* the index list of a type has no index left at the pointer
exhausted(st, problem_type) ==
    pointer_of(st, problem_type) >= Len(indices_list_of(problem_type))

\* C24: the sample-collection loop always terminates: in a run that nothing
\* interrupts, whatever the index lists and the outcomes of the items, main
\* eventually leaves its while loop.
C24_LoopTerminates == <>(tpc = "done")

\* no dataset item occurs twice in a list of collected results
NoItemTwice(res) ==
    \A j, k \in 1..Len(res) : res[j].prompt = res[k].prompt => j = k

\* C25: over runs that are interrupted at any step and restarted from the
\* files, the pointers of the state file never decrease, the pointers in
\* memory never decrease within a run, and no dataset item is stored twice,
\* neither in the results file nor in the list a run holds in memory.
C25_ResumeCollectsOnce ==
    [][ /\ NoItemTwice(RESULTS_FILE'.content)
        /\ NoItemTwice(collected_results')
        /\ STATE_FILE.exists =>
               /\ STATE_FILE'.exists
               /\ STATE_FILE'.content.pointers.parents >= STATE_FILE.content.pointers.parents
               /\ STATE_FILE'.content.pointers.bfs >= STATE_FILE.content.pointers.bfs
        /\ (tpc \in InLoop /\ tpc' \in InLoop) =>
               /\ state'.pointers.parents >= state.pointers.parents
               /\ state'.pointers.bfs >= state.pointers.bfs ]_vars

\* a run was interrupted between the two writes of save_state, and a later
\* run stored a further sample on top of the results it found
C25_Witness ==
    /\ tpc = "loop"
    /\ Len(RESULTS_FILE.content) >= 1
    /\ STATE_FILE.content.pointers.parents + STATE_FILE.content.pointers.bfs
           > Len(RESULTS_FILE.content) + 1
    /\ collected_results = RESULTS_FILE.content
    /\ state = STATE_FILE.content

\* C27: when initialize_state_and_indices takes the resume branch, the four
\* files load_state reads exist.
C27_ResumeFilesExist ==
    (tpc = "load") =>
        /\ STATE_FILE.exists /\ RESULTS_FILE.exists
        /\ INDICES_PARENTS_FILE.exists /\ INDICES_BFS_FILE.exists

\* C28: neither the list in memory nor the results file ever holds more than
\* TARGET_SAMPLES_PER_TYPE samples of a type, and a type the loop selects for
\* an attempt is below the target.
C28_TargetNeverExceeded ==
    /\ \A problem_type \in {"parents", "bfs"} :
           /\ counts(collected_results, problem_type) <= TARGET_SAMPLES_PER_TYPE
           /\ counts(RESULTS_FILE.content, problem_type) <= TARGET_SAMPLES_PER_TYPE
    /\ tpc = "selected" =>
           /\ counts(collected_results, current_type) < TARGET_SAMPLES_PER_TYPE
           /\ counts(RESULTS_FILE.content, current_type) < TARGET_SAMPLES_PER_TYPE

\* one type is at the target, held in memory and in the file, while the loop
\* has selected the other type
C28_Witness ==
    /\ tpc = "selected"
    /\ current_type = "bfs"
    /\ counts(collected_results, "parents") = TARGET_SAMPLES_PER_TYPE
    /\ counts(RESULTS_FILE.content, "parents") = TARGET_SAMPLES_PER_TYPE
    /\ ~exhausted(state, "bfs")

\* both types are below the target and neither index list is used up
BothInPlay(st, res) ==
    /\ should_process(counts(res, "parents")) /\ should_process(counts(res, "bfs"))
    /\ ~exhausted(st, "parents") /\ ~exhausted(st, "bfs")

\* C29: while both types are below the target and neither index list is used
\* up, the loop selects the type with the smaller pointer, parents on a tie,
\* and ptr_bfs <= ptr_parents <= ptr_bfs + 1; an attempt advances the pointer
\* of the selected type by exactly one, with or without a sample, and leaves
\* the other pointer alone.
C29_FairAlternation ==
    [][ /\ (tpc' \in InLoop /\ BothInPlay(state', collected_results')) =>
               /\ state'.pointers.bfs <= state'.pointers.parents
               /\ state'.pointers.parents <= state'.pointers.bfs + 1
               /\ tpc' = "selected" =>
                      current_type' = IF state'.pointers.parents <= state'.pointers.bfs
                                      THEN "parents" ELSE "bfs"
        /\ (tpc = "selected" /\ tpc' = "save_state") =>
               /\ pointer_of(state', current_type) = pointer_of(state, current_type) + 1
               /\ \A other \in {"parents", "bfs"} \ {current_type} :
                      pointer_of(state', other) = pointer_of(state, other) ]_vars

\* after a bfs attempt the pointers are level again, both types are still in
\* play, and one of the attempts so far gave no sample
C29_Witness ==
    /\ tpc = "save_state"
    /\ current_type = "bfs"
    /\ BothInPlay(state, collected_results)
    /\ state.pointers.parents = state.pointers.bfs
    /\ state.pointers.bfs >= 1
    /\ Len(collected_results) < state.pointers.parents + state.pointers.bfs

----------------------------------------------------------------------------
(* Properties of the resumed classic run, stated over SpecResume *)

\* C26: after any sequence of runs, each stopped after some number of written
\* records and started again, the k-th record of the output file (from 0) has
\* id k and is the record of the k-th example of the dataset: no example is
\* written twice and none is passed over.
C26_ResumeWithoutGapsOrRepeats ==
    /\ Len(results) <= Len(examples)
    /\ \A k \in 0..(Len(results) - 1) :
           /\ results[k + 1].id = k
           /\ results[k + 1].prompt = examples[k + 1].prompt
           /\ results[k + 1].problem_type = examples[k + 1].problem_type
           /\ results[k + 1].answer_nodes = examples[k + 1].answer_nodes

\* a run that found records of an earlier run has written further ones, for
\* examples that differ from the first one
C26_Witness ==
    /\ cpc = "run"
    /\ processed_count >= 1
    /\ run_iterations >= 1
    /\ Len(results) = processed_count + run_iterations
    /\ examples[Len(results)] # examples[1]

====
